---- MODULE Spec2Model ----
(***************************************************************************)
(* State-machine model of the caching MatrixRPGClient                      *)
(* (src/unnamed/part_000, lines 1-1210): the message cache, the join /     *)
(* history-load task, the send and delete tasks, the live timeline         *)
(* listener and the command interpreter.                                   *)
(*                                                                         *)
(* Conventions.                                                            *)
(*  - A JavaScript field that is unset (undefined) is modelled by FALSE    *)
(*    for the flags historical / self / redacted, so a record read back    *)
(*    from JSON is the record that was written.                            *)
(*  - A room key with no array in messageCache is modelled by the empty    *)
(*    sequence: the code never stores an empty array under a key.          *)
(*  - Event ids are the positions of the events in the server's log srv;   *)
(*    the origin timestamp of event i is 2*i and the client clock read     *)
(*    when the send of event i resolves is 2*i+1.                          *)
(***************************************************************************)
EXTENDS Integers, Sequences, FiniteSets, TLC

\* ------------------------------------------------------------------ bounds
MaxEvents == 2      \* events the server ever holds
MaxBus == 4         \* publications recorded on the Event Bus log
MaxOrphans == 1     \* started protocol clients no longer referenced

\* --------------------------------------------------------- program constants
PruneLimit == 1000  \* records kept per room by _pruneMessageCache
PageLimit == 100    \* events requested per history page
PageDelay == 500    \* ms between two history pages
DefaultBackoff == 5000  \* ms waited on a rate limit without retry_after_ms
MaxCount == 100     \* rollDice: largest count accepted
MaxSides == 1000    \* rollDice: largest sides accepted

Null == "null"
Rooms == {"r1", "r2"}
CacheKeys == Rooms \cup {Null}
Me == "@me"
Bob == "@bob"
Users == {Me, Bob}

VARIABLES
  client,            \* this.client: "null" | "created" | "started" | "stopped"
  orphans,           \* started clients replaced without being stopped
  userId,            \* this.userId
  room,              \* this.room
  roomState,         \* this.roomState
  messageCache,      \* this.messageCache
  isLoadingHistory,  \* this.isLoadingHistory
  lsRoom,            \* localStorage matrixRoom
  lsCache,           \* localStorage matrixMessageCache
  lsCreds,           \* the credential keys present in localStorage
  bus,               \* log of _triggerEvent calls
  result,            \* value returned by the command that completed last
  srv,               \* the server's event log
  timeline,          \* ids in the current client's live timelines
  join,              \* the joinRoom call in flight that runs next
  op,                \* the send* or deleteLastMessage call in flight
  logging,           \* whether bus records the _triggerEvent calls
  join2,             \* a second joinRoom call in flight, suspended
  loginCall,         \* the login or loginWithToken call in flight
  leaveCall,         \* the leaveRoom call in flight
  refresh,           \* the listener's _updateRoomState call in flight
  clearCall          \* the clearAllMessages call in flight

vars == <<client, orphans, userId, room, roomState, messageCache,
          isLoadingHistory, lsRoom, lsCache, lsCreds, bus, result, srv,
          timeline, join, op, logging, join2, loginCall, leaveCall, refresh,
          clearCall>>

\* the calls in flight other than joins, sends and deletions
calls == <<loginCall, leaveCall, refresh, clearCall>>

\* ----------------------------------------------------------------- records
EmptyCache == [k \in CacheKeys |-> <<>>]
NoRoomState == [present |-> FALSE, members |-> {}]
EmptyRoomState == [r \in Rooms |-> NoRoomState]
\* wait is the delay in ms of the pending setTimeout, 0 when there is none
IdleJoin == [pc |-> "idle", rid |-> Null, processed |-> {}, users |-> FALSE,
             auth |-> FALSE, wait |-> 0]
IdleOp == [pc |-> "idle", rid |-> Null, kind |-> "", id |-> 0, auth |-> FALSE]
IdleLogin == [pc |-> "idle"]
IdleLeave == [pc |-> "idle", rid |-> Null, auth |-> FALSE]
IdleRefresh == [pc |-> "idle", rid |-> Null, users |-> FALSE, auth |-> FALSE]
\* ids are the events the loop redacts, k the turn whose request is pending
IdleClear == [pc |-> "idle", ids |-> <<>>, k |-> 0, auth |-> FALSE]

ServerPL(u) == IF u = Me THEN 50 ELSE 0

\* matrixAccessToken, matrixUserId, matrixUsername, matrixPassword
CredKeys == {"token", "userId", "username", "password"}

StorageOutcomes == {"ok", "quota", "quotaTwice", "other"}

\* One _triggerEvent call.  via names the code path that made it.
Pub(ch, via, ctx, note, msgs) ==
  [ch |-> ch, via |-> via, ctx |-> ctx, note |-> note, msg |-> msgs]

ErrorEvent(ctx, message) == Pub("error", "cmd", ctx, message, <<>>)

SystemMessage(text) == Pub("message", "system", "", text, <<>>)

\* ------------------------------------------------------------- the cache
\* msgs.some(m => m.id === id)
HasId(msgs, id) == \E i \in 1..Len(msgs) : msgs[i].id = id

GetMessageCache(cache, r) == cache[r]

Slice(msgs, from) == [i \in 1..(Len(msgs) - from) |-> msgs[from + i]]

\* variant that keeps the oldest PruneLimit records
PruneMessageCacheOldest(cache) ==
  [k \in CacheKeys |->
     IF Len(cache[k]) > PruneLimit
     THEN SubSeq(cache[k], 1, PruneLimit)
     ELSE cache[k]]

PruneMessageCache(cache) ==
  [k \in CacheKeys |->
     IF Len(cache[k]) > PruneLimit
     THEN Slice(cache[k], Len(cache[k]) - PruneLimit)
     ELSE cache[k]]

\* variant in which a save that fails for good puts the persisted cache back
\* in memory
SaveMessageCacheRollback(st, outcome) ==
  CASE outcome = "ok" -> [mem |-> st.mem, disk |-> st.mem]
    [] outcome = "quota" ->
         LET p == PruneMessageCache(st.mem) IN [mem |-> p, disk |-> p]
    [] OTHER -> [mem |-> st.disk, disk |-> st.disk]

\* st = [mem |-> this.messageCache, disk |-> the persisted cache]
SaveMessageCache(st, outcome) ==
  CASE outcome = "ok" -> [mem |-> st.mem, disk |-> st.mem]
    [] outcome = "quota" ->
         LET p == PruneMessageCache(st.mem) IN [mem |-> p, disk |-> p]
    [] outcome = "quotaTwice" ->
         [mem |-> PruneMessageCache(st.mem), disk |-> st.disk]
    [] OTHER -> st

\* variant without the "exists" check
AddMessageToCacheAlways(st, r, message, outcome) ==
  SaveMessageCache(
    [st EXCEPT !.mem = [@ EXCEPT ![r] = Append(@, message)]], outcome)

\* variant in which the later record replaces the stored one
AddMessageToCacheReplace(st, r, message, outcome) ==
  SaveMessageCache(
    [st EXCEPT !.mem = [@ EXCEPT ![r] =
       IF HasId(@, message.id)
       THEN [i \in 1..Len(@) |->
               IF @[i].id = message.id THEN message ELSE @[i]]
       ELSE Append(@, message)]], outcome)

AddMessageToCache(st, r, message, outcome) ==
  IF HasId(st.mem[r], message.id)
  THEN st
  ELSE SaveMessageCache(
         [st EXCEPT !.mem = [@ EXCEPT ![r] = Append(@, message)]], outcome)

\* lines 1165-1171: the map that marks the record of the redacted id
MarkRedactedMap(msgs, id) ==
  [i \in 1..Len(msgs) |->
     IF msgs[i].id = id THEN [msgs[i] EXCEPT !.redacted = TRUE] ELSE msgs[i]]

\* the "if (this.messageCache[r]) { map ...; _saveMessageCache() }" block
MarkRedacted(st, r, id, outcome) ==
  IF st.mem[r] = <<>>
  THEN st
  ELSE SaveMessageCache(
         [st EXCEPT !.mem = [@ EXCEPT ![r] = MarkRedactedMap(@, id)]], outcome)

Store == [mem |-> messageCache, disk |-> lsCache]

PowerLevelOf(rs, r, u) ==
  IF r \in Rooms /\ rs[r].present /\ u \in rs[r].members
  THEN ServerPL(u) ELSE 0

\* ------------------------------------------------------------- the bus
\* bus is the log of the calls made since the last joinRoom request was
\* issued; it is kept (and capped at MaxBus entries) only while logging
Emit(evs) ==
  IF logging
  THEN /\ Len(bus) + Len(evs) <= MaxBus
       /\ bus' = bus \o evs
  ELSE bus' = bus

\* _processHistoricalMessage(msg) as the publications it makes
ProcessHistoricalMessage(loading, msg, via) ==
  IF loading THEN <<>>
  ELSE IF msg.type = "roll" THEN <<Pub("roll", via, "", "", <<msg>>)>>
  ELSE IF msg.type = "scene" THEN <<Pub("scene", via, "", "", <<msg>>)>>
  ELSE <<Pub("message", via, "", "", <<msg>>)>>

\* the forEach of joinRoom over the cached records lo..hi of msgs
RECURSIVE ReplayRange(_, _, _, _, _)
ReplayRange(loading, msgs, via, lo, hi) ==
  IF lo > hi THEN <<>>
  ELSE IF lo = hi THEN ProcessHistoricalMessage(loading, msgs[lo], via)
  ELSE LET mid == (lo + hi) \div 2
       IN ReplayRange(loading, msgs, via, lo, mid)
            \o ReplayRange(loading, msgs, via, mid + 1, hi)

ReplayAll(loading, msgs, via) == ReplayRange(loading, msgs, via, 1, Len(msgs))

\* ------------------------------------------------------- message records
Msg(id, sender, roomId, type, powerLevel, timestamp, historical, self) ==
  [id |-> id, sender |-> sender, roomId |-> roomId, type |-> type,
   powerLevel |-> powerLevel, timestamp |-> timestamp,
   historical |-> historical, self |-> self, redacted |-> FALSE]

\* content.formatted_body?.type || 'chat'
MessageType(tag) == IF tag = "none" THEN "chat" ELSE tag

ServerTs(id) == 2 * id
ClientNow(id) == 2 * id + 1

\* An event sent by sendRoll carries its formatted_body fields as payload;
\* the fields a reader copies from a roll message (lines 296-304, 1117-1124)
NoFields == [x \in {} |-> x]

RollFieldsOf(ev) ==
  IF ev.rpg /\ MessageType(ev.tag) = "roll" /\ "payload" \in DOMAIN ev
  THEN ev.payload ELSE NoFields

\* the record the Room.timeline listener builds for server event id
LiveMessageObj(id, rs, uid) ==
  Msg(id, srv[id].sender, srv[id].room, MessageType(srv[id].tag),
      PowerLevelOf(rs, srv[id].room, srv[id].sender), ServerTs(id),
      FALSE, srv[id].sender = uid) @@ RollFieldsOf(srv[id])

\* the record processEvents builds for server event id
HistoryMessageObj(id, rid, rs) ==
  Msg(id, srv[id].sender, rid, MessageType(srv[id].tag),
      PowerLevelOf(rs, rid, srv[id].sender), ServerTs(id), TRUE, FALSE)
    @@ RollFieldsOf(srv[id])

\* the record sendMessage / sendScene / sendNarration / sendRoll caches
SentMessageObj(id, kind, rs, r, uid) ==
  Msg(id, uid, r, kind, PowerLevelOf(rs, r, uid), ClientNow(id), FALSE, TRUE)

\* the record sendRoll caches: payload holds dice, rolls, hits, parities
RollMessageObj(id, payload, rs, r, uid) ==
  Msg(id, uid, r, "roll", PowerLevelOf(rs, r, uid), ClientNow(id), FALSE, TRUE)
    @@ payload

\* the channel the live listener publishes a record on
LiveChannel(id) ==
  IF srv[id].rpg /\ MessageType(srv[id].tag) = "roll" THEN "roll"
  ELSE IF srv[id].rpg /\ MessageType(srv[id].tag) = "scene" THEN "scene"
  ELSE "message"

\* the turns lo..hi of the loop of processEvents, in order
RECURSIVE ProcessRange(_, _, _, _, _, _, _, _)
ProcessRange(acc, rid, events, rs, loading, outcome, lo, hi) ==
  IF lo > hi THEN acc
  ELSE LET id == events[lo] IN
       IF id \in acc.processed \/ srv[id].redacted
       THEN ProcessRange(acc, rid, events, rs, loading, outcome, lo + 1, hi)
       ELSE LET obj == HistoryMessageObj(id, rid, rs)
                nxt == [st |-> AddMessageToCache(acc.st, rid, obj, outcome),
                        processed |-> acc.processed \cup {id},
                        newEvents |-> acc.newEvents + 1,
                        pubs |-> acc.pubs \o
                                 ProcessHistoricalMessage(loading, obj, "page")]
            IN ProcessRange(nxt, rid, events, rs, loading, outcome,
                            lo + 1, hi)

\* processEvents(events): the loop of _loadRoomHistory over one batch, from
\* turn i on, evaluated ten turns at a time
RECURSIVE ProcessEvents(_, _, _, _, _, _, _)
ProcessEvents(acc, rid, events, rs, loading, outcome, i) ==
  IF i > Len(events) \/ acc.newEvents < 0 THEN acc
  ELSE ProcessEvents(
         ProcessRange(acc, rid, events, rs, loading, outcome, i,
                      IF i + 9 < Len(events) THEN i + 9 ELSE Len(events)),
         rid, events, rs, loading, outcome, i + 10)

\* ids of the events of room r among ids, oldest first
EventsOf(r, ids, i) ==
  SelectSeq([k \in 1..(IF i > Len(srv) THEN 0 ELSE Len(srv) - i + 1) |->
               i + k - 1],
            LAMBDA e : e \in ids /\ srv[e].room = r)

Reverse(s) == [i \in 1..Len(s) |-> s[Len(s) + 1 - i]]

\* the chunk createMessagesRequest(r, null, limit, 'b') returns: the most
\* recent events of the room, newest first
PageChunk(r) ==
  LET all == Reverse(EventsOf(r, 1..Len(srv), 1))
  IN IF Len(all) > PageLimit THEN SubSeq(all, 1, PageLimit) ELSE all

\* -------------------------------------------------------------------- Init
Fresh ==
  /\ client = Null
  /\ orphans = 0
  /\ userId = Null
  /\ room = Null
  /\ roomState = EmptyRoomState
  /\ messageCache = EmptyCache
  /\ isLoadingHistory = FALSE
  /\ lsRoom = Null
  /\ lsCache = EmptyCache
  /\ lsCreds = {}
  /\ bus = <<>>
  /\ result = "none"
  /\ srv = <<>>
  /\ timeline = {}
  /\ join = IdleJoin
  /\ join2 = IdleJoin
  /\ loginCall = IdleLogin
  /\ leaveCall = IdleLeave
  /\ refresh = IdleRefresh
  /\ clearCall = IdleClear
  /\ op = IdleOp

Init == Fresh /\ logging = TRUE

InitQuiet == Fresh /\ logging = FALSE

\* a new process: the constructor runs against the persisted storage
Constructor ==
  /\ client' = Null
  /\ orphans' = 0
  /\ userId' = Null
  /\ room' = lsRoom
  /\ roomState' = EmptyRoomState
  /\ messageCache' = lsCache
  /\ isLoadingHistory' = FALSE
  /\ bus' = <<>>
  /\ result' = "none"
  /\ timeline' = {}
  /\ join' = IdleJoin
  /\ op' = IdleOp
  /\ UNCHANGED <<lsRoom, lsCache, lsCreds, srv>>
  /\ join2' = IdleJoin
  /\ loginCall' = IdleLogin
  /\ leaveCall' = IdleLeave
  /\ refresh' = IdleRefresh
  /\ clearCall' = IdleClear
  /\ UNCHANGED logging

\* ---------------------------------------------------------- authentication
\* this.client holds a session and the rooms it synced: it was started, and
\* is syncing or was stopped by a reset that then threw (line 796)
HasSession == client \in {"started", "stopped"}

\* lines 93-95: createClient replaces this.client; a started client it
\* replaces keeps running
CreateClient ==
  /\ orphans + (IF client = "started" THEN 1 ELSE 0) <= MaxOrphans
  /\ orphans' = orphans + (IF client = "started" THEN 1 ELSE 0)
  /\ client' = "created"
  /\ timeline' = {}

\* processCommand('/login u p') -> login(u, p) up to its first await, of
\* loginWithPassword (line 97)
CmdLogin ==
  /\ loginCall.pc = "idle"
  /\ CreateClient
  /\ loginCall' = [pc |-> "password"]
  /\ UNCHANGED <<userId, room, roomState, messageCache, isLoadingHistory,
                 lsRoom, lsCache, lsCreds, bus, result, srv, join, op>>
  /\ UNCHANGED <<logging, join2, leaveCall, refresh, clearCall>>

\* the credential keys in the order lines 100-103 write them
CredOrder == <<"token", "userId", "username", "password">>

\* loginWithPassword settles; lines 98-106 and the catch at 113-119. wrote
\* is the number of localStorage.setItem calls of lines 100-103 that
\* succeed: 4 when none throws. With this.client null setupClientListeners
\* returns and this.client.startClient() throws.
LoginResolved(ok, wrote) ==
  /\ loginCall.pc = "password"
  /\ IF ~ok
     THEN /\ wrote = 4
          /\ Emit(<<ErrorEvent("login", "Login failed")>>)
          /\ result' = "loginFail"
          /\ loginCall' = IdleLogin
          /\ UNCHANGED <<userId, lsCreds>>
     ELSE /\ userId' = Me
          /\ lsCreds' = lsCreds \cup {CredOrder[i] : i \in 1..wrote}
          /\ IF wrote < 4 \/ client = Null
             THEN /\ Emit(<<ErrorEvent("login", "Login failed")>>)
                  /\ result' = "loginFail"
                  /\ loginCall' = IdleLogin
             ELSE /\ loginCall' = [pc |-> "start"]
                  /\ UNCHANGED <<bus, result>>
  /\ UNCHANGED <<client, orphans, room, roomState, messageCache,
                 isLoadingHistory, lsRoom, lsCache, srv, timeline, join, op>>
  /\ UNCHANGED <<logging, join2, leaveCall, refresh, clearCall>>

\* client.startClient() of login settles; lines 106-112 and the catch. The
\* client that was started is this call's unless a logout or reset stopped
\* and dropped it meanwhile.
StartResolved(ok) ==
  /\ loginCall.pc = "start"
  /\ IF ok
     THEN /\ client' = IF client = "created" THEN "started" ELSE client
          /\ room' = lsRoom
          /\ result' = "loginOk"
          /\ UNCHANGED bus
     ELSE /\ Emit(<<ErrorEvent("login", "Login failed")>>)
          /\ result' = "loginFail"
          /\ UNCHANGED <<client, room>>
  /\ loginCall' = IdleLogin
  /\ UNCHANGED <<orphans, userId, roomState, messageCache, isLoadingHistory,
                 lsRoom, lsCache, lsCreds, srv, timeline, join, op>>
  /\ UNCHANGED <<logging, join2, leaveCall, refresh, clearCall>>

\* variant that also drops the cache, in memory and persisted
LogoutClearingCache ==
  /\ client' = Null
  /\ lsCreds' = {}
  /\ lsRoom' = Null
  /\ userId' = Null
  /\ room' = Null
  /\ roomState' = EmptyRoomState
  /\ messageCache' = EmptyCache
  /\ lsCache' = EmptyCache
  /\ result' = "logout"
  /\ UNCHANGED <<orphans, isLoadingHistory, bus, srv, timeline, join, op>>
  /\ UNCHANGED <<logging, join2>>
  /\ UNCHANGED calls

\* variant that reports the token login failure whenever it returns false
NoStoredLoginAlwaysReporting(failedStart) ==
  /\ Emit(<<ErrorEvent("tokenLogin", "Token login failed")>>)
  /\ result' = "false"

\* loginWithToken() without a stored username and password: lines 134 and
\* 163-167
NoStoredLogin(failedStart) ==
  /\ IF failedStart
     THEN Emit(<<ErrorEvent("tokenLogin", "Token login failed")>>)
     ELSE UNCHANGED bus
  /\ result' = "false"

\* loginWithToken() up to its first await: of startClient (line 148), or
\* of loginWithPassword when it falls back to login (line 132) for want of
\* a stored token
CmdLoginWithToken ==
  /\ loginCall.pc = "idle"
  /\ IF ~({"token", "userId"} \subseteq lsCreds)
     THEN IF {"username", "password"} \subseteq lsCreds
          THEN /\ CreateClient
               /\ loginCall' = [pc |-> "password"]
               /\ UNCHANGED <<userId, bus, result>>
          ELSE /\ NoStoredLogin(FALSE)
               /\ UNCHANGED <<client, orphans, timeline, userId, loginCall>>
     ELSE /\ CreateClient
          /\ userId' = Me
          /\ loginCall' = [pc |-> "tokenStart"]
          /\ UNCHANGED <<bus, result>>
  /\ UNCHANGED <<room, roomState, messageCache, isLoadingHistory, lsRoom,
                 lsCache, lsCreds, srv, join, op>>
  /\ UNCHANGED <<logging, join2, leaveCall, refresh, clearCall>>

\* client.startClient() of loginWithToken settles; lines 148-168. On a
\* rejection the stored username and password are read and login is called.
TokenStartResolved(ok) ==
  /\ loginCall.pc = "tokenStart"
  /\ IF ok
     THEN /\ client' = IF client = "created" THEN "started" ELSE client
          /\ room' = lsRoom
          /\ result' = "true"
          /\ loginCall' = IdleLogin
          /\ UNCHANGED <<orphans, timeline, bus>>
     ELSE IF {"username", "password"} \subseteq lsCreds
     THEN /\ CreateClient
          /\ loginCall' = [pc |-> "password"]
          /\ UNCHANGED <<room, bus, result>>
     ELSE /\ NoStoredLogin(TRUE)
          /\ loginCall' = IdleLogin
          /\ UNCHANGED <<client, orphans, timeline, room>>
  /\ UNCHANGED <<userId, roomState, messageCache, isLoadingHistory, lsRoom,
                 lsCache, lsCreds, srv, join, op>>
  /\ UNCHANGED <<logging, join2, leaveCall, refresh, clearCall>>

\* processCommand('/logout') -> logout()
Logout ==
  /\ client' = Null
  /\ lsCreds' = {}
  /\ lsRoom' = Null
  /\ userId' = Null
  /\ room' = Null
  /\ roomState' = EmptyRoomState
  /\ result' = "logout"
  /\ UNCHANGED <<orphans, messageCache, isLoadingHistory, lsCache, bus, srv, timeline, join, op>>
  /\ UNCHANGED <<logging, join2>>
  /\ UNCHANGED calls

\* processCommand('/reset') -> reset(); lines 794-818. ok is whether
\* sessionStorage.setItem('matrixReset', 'true') (line 807) succeeds. When it
\* throws, the client is stopped and the five keys are removed, the
\* properties of lines 810-813 keep their values and the exception leaves
\* reset and processCommand, neither of which catches it.
Reset(ok) ==
  /\ lsCreds' = {}
  /\ lsRoom' = Null
  /\ IF ok
     THEN /\ client' = Null
          /\ room' = Null
          /\ userId' = Null
          /\ roomState' = EmptyRoomState
          /\ result' = "true"
     ELSE /\ client' = IF client = "started" THEN "stopped" ELSE client
          /\ result' = "throws"
          /\ UNCHANGED <<room, userId, roomState>>
  /\ UNCHANGED <<orphans, messageCache, isLoadingHistory, lsCache, bus, srv, timeline, join, op>>
  /\ UNCHANGED <<logging, join2>>
  /\ UNCHANGED calls

\* processCommand('/clear-cache') -> clearMessageCache()
ClearMessageCache ==
  /\ messageCache' = EmptyCache
  /\ lsCache' = EmptyCache
  /\ result' = "true"
  /\ UNCHANGED <<client, orphans, userId, room, roomState, isLoadingHistory,
                 lsRoom, lsCreds, bus, srv,
                 timeline, join, op>>
  /\ UNCHANGED <<logging, join2>>
  /\ UNCHANGED calls

\* ------------------------------------------------------------ joinRoom
\* variant in which a load that published pubs fails the join
FinishJoinFailing(rid, pubs) ==
  /\ Emit(pubs)
  /\ isLoadingHistory' = FALSE
  /\ result' = "false"
  /\ join' = IdleJoin

\* lines 219-227: the history load has returned
FinishJoin(rid, pubs) ==
  /\ Emit(pubs \o <<Pub("roomJoin", "join", rid, "", <<>>)>>)
  /\ isLoadingHistory' = FALSE
  /\ result' = "true"
  /\ join' = IdleJoin

\* lines 206-218 and _loadRoomHistory up to its first page request: runs
\* once _updateRoomState has returned, with rs the room state it left
ReplayAndLoad(rid, pre, rs, outcome) ==
  LET replay == ReplayAll(isLoadingHistory,
                          GetMessageCache(messageCache, rid), "replay")
  IN IF ~HasSession
     THEN /\ FinishJoin(rid, pre \o replay)
          /\ UNCHANGED <<messageCache, lsCache>>
     ELSE LET pe == ProcessEvents(
                      [st |-> Store, processed |-> {}, newEvents |-> 0,
                       pubs |-> <<>>],
                      rid, EventsOf(rid, timeline, 1), rs, TRUE, outcome, 1)
          IN /\ Emit(pre \o replay
                       \o <<SystemMessage("Loading message history...")>>
                       \o pe.pubs)
             /\ messageCache' = pe.st.mem
             /\ lsCache' = pe.st.disk
             /\ isLoadingHistory' = TRUE
             /\ join' = [join EXCEPT !.pc = "page",
                                     !.processed = pe.processed,
                                     !.auth = HasSession]
             /\ UNCHANGED <<result>>

\* variant without the "if (!this.client)" guard
CmdJoinUnguarded(r) ==
  /\ join.pc = "idle"
  /\ join' = [IdleJoin EXCEPT !.pc = "joining", !.rid = r,
                              !.auth = HasSession]
  /\ bus' = <<>>
  /\ UNCHANGED <<client, orphans, userId, room, roomState, messageCache,
                 isLoadingHistory, lsRoom, lsCache, lsCreds,
                 srv, timeline, op, result, logging, join2>>
  /\ UNCHANGED calls

\* processCommand('/join r') -> joinRoom(r)
CmdJoin(r) ==
  /\ IF client = Null
     THEN /\ Emit(<<ErrorEvent("joinRoom", "Not logged in")>>)
          /\ result' = "false"
          /\ UNCHANGED join
     ELSE /\ join.pc = "idle"
          /\ join' = [IdleJoin EXCEPT !.pc = "joining", !.rid = r,
                                      !.auth = HasSession]
          /\ bus' = <<>>
          /\ UNCHANGED result
  /\ UNCHANGED <<client, orphans, userId, room, roomState, messageCache,
                 isLoadingHistory, lsRoom, lsCache, lsCreds,
                 srv, timeline, op>>
  /\ UNCHANGED <<logging, join2>>
  /\ UNCHANGED calls

\* client.joinRoom settles; on success _updateRoomState starts
JoinRoomResolved(ok) ==
  /\ join.pc = "joining"
  /\ IF ok
     THEN /\ join.auth
          /\ room' = join.rid
          /\ lsRoom' = join.rid
          /\ IF client = Null
             THEN FinishJoin(join.rid,
                    <<ErrorEvent("roomState", "Failed to update room state")>>
                    \o ReplayAll(isLoadingHistory,
                         GetMessageCache(messageCache, join.rid), "replay"))
             ELSE /\ join' = [join EXCEPT !.pc = "state1",
                                          !.auth = HasSession]
                  /\ UNCHANGED <<bus, isLoadingHistory, result>>
     ELSE /\ Emit(<<ErrorEvent("joinRoom", "Failed to join room")>>)
          /\ result' = "false"
          /\ join' = IdleJoin
          /\ UNCHANGED <<room, lsRoom, isLoadingHistory>>
  /\ UNCHANGED <<client, orphans, userId, roomState, messageCache, lsCache,
                 lsCreds, srv, timeline, op>>
  /\ UNCHANGED <<logging, join2>>
  /\ UNCHANGED calls

\* client.joinRoom resolves, this.room is assigned (line 200) and
\* localStorage.setItem('matrixRoom', ...) (line 201) throws because the
\* storage quota is exhausted; writing the value already stored cannot
\* exceed it. The catch at 226-232 reports the error and joinRoom returns
\* false.
JoinRoomStoreFailed ==
  /\ join.pc = "joining"
  /\ join.auth
  /\ lsRoom # join.rid
  /\ room' = join.rid
  /\ Emit(<<ErrorEvent("joinRoom", "QuotaExceededError")>>)
  /\ result' = "false"
  /\ join' = IdleJoin
  /\ UNCHANGED <<client, orphans, userId, roomState, messageCache,
                 isLoadingHistory, lsRoom, lsCache, lsCreds, srv, timeline, op>>
  /\ UNCHANGED <<logging, join2>>
  /\ UNCHANGED calls

\* client.getStateEvent(r, 'm.room.power_levels') settles
StateEventResolved(ok, users, outcome) ==
  /\ join.pc = "state1"
  /\ IF ok /\ client # Null
     THEN /\ join.auth
          /\ outcome = "ok"
          /\ join' = [join EXCEPT !.pc = "state2", !.users = users,
                                  !.auth = HasSession]
          /\ UNCHANGED <<bus, messageCache, lsCache, isLoadingHistory,
                         result>>
     ELSE /\ ok => join.auth
          /\ users
          /\ ReplayAndLoad(join.rid,
               <<ErrorEvent("roomState", "Failed to update room state")>>,
               roomState, outcome)
  /\ UNCHANGED <<client, orphans, userId, room, roomState, lsRoom, lsCreds,
                 srv, timeline, op>>
  /\ UNCHANGED <<logging, join2>>
  /\ UNCHANGED calls

\* client.getJoinedRoomMembers(r) settles; lines 437-460
MembersResolved(ok, outcome) ==
  /\ join.pc = "state2"
  /\ IF ok
     THEN /\ join.auth
          /\ LET rs == [roomState EXCEPT ![join.rid] =
                          [present |-> TRUE,
                           members |-> IF join.users THEN Users ELSE {}]]
                 ev == IF join.users
                       THEN Pub("roomState", "join", join.rid, "", <<>>)
                       ELSE ErrorEvent("roomState",
                                       "Failed to update room state")
             IN /\ roomState' = rs
                /\ ReplayAndLoad(join.rid, <<ev>>, rs, outcome)
     ELSE /\ roomState' = roomState
          /\ ReplayAndLoad(join.rid,
               <<ErrorEvent("roomState", "Failed to update room state")>>,
               roomState, outcome)
  /\ UNCHANGED <<client, orphans, userId, room, lsRoom, lsCreds,
                 srv, timeline, op>>
  /\ UNCHANGED <<logging, join2>>
  /\ UNCHANGED calls

\* variant that pages on as long as the server returns an end token
ContinuePagingOnEnd(end, newEvents) == end

\* line 367: if (response.end && newEvents > 0)
ContinuePaging(end, newEvents) == end /\ newEvents > 0

\* client.createMessagesRequest(r, null, 100, 'b') settles; lines 345-394.
\* With a chunk to map and this.client null, getEventMapper (line 360)
\* throws and the catch reports it.
\* retryAfter is error.data.retry_after_ms of a rate-limit error, 0 when
\* the error carries none.
PageResolved(kind, end, outcome, retryAfter) ==
  /\ join.pc = "page"
  /\ kind # "ratelimit" => retryAfter = 0
  /\ CASE kind = "chunk" ->
            /\ join.auth
            /\ LET chunk == PageChunk(join.rid)
                   pe == ProcessEvents(
                           [st |-> Store, processed |-> join.processed,
                            newEvents |-> 0, pubs |-> <<>>],
                           join.rid, chunk, roomState, isLoadingHistory,
                           outcome, 1)
               IN IF chunk = <<>>
                  THEN /\ FinishJoin(join.rid,
                            <<SystemMessage("All message history loaded")>>)
                       /\ ~end
                       /\ outcome = "ok"
                       /\ UNCHANGED <<messageCache, lsCache>>
                  ELSE IF client = Null
                  THEN /\ FinishJoin(join.rid,
                            <<SystemMessage("Couldn't load more history")>>)
                       /\ UNCHANGED <<messageCache, lsCache>>
                  ELSE /\ messageCache' = pe.st.mem
                       /\ lsCache' = pe.st.disk
                       /\ IF ContinuePaging(end, pe.newEvents)
                          THEN /\ Emit(pe.pubs)
                               /\ join' = [join EXCEPT !.pc = "delay",
                                             !.processed = pe.processed,
                                             !.wait = PageDelay]
                               /\ UNCHANGED <<isLoadingHistory, result>>
                          ELSE FinishJoin(join.rid, pe.pubs)
       [] kind = "ratelimit" ->
            /\ ~end
            /\ outcome = "ok"
            /\ join' = [join EXCEPT !.pc = "backoff",
                          !.wait = IF retryAfter = 0 THEN DefaultBackoff
                                   ELSE retryAfter]
            /\ UNCHANGED <<bus, messageCache, lsCache, isLoadingHistory,
                           result>>
       [] OTHER ->
            /\ ~end
            /\ outcome = "ok"
            /\ FinishJoin(join.rid,
                 <<SystemMessage("Couldn't load more history")>>)
            /\ UNCHANGED <<messageCache, lsCache>>
  /\ UNCHANGED <<client, orphans, userId, room, roomState, lsRoom, lsCreds,
                 srv, timeline, op>>
  /\ UNCHANGED <<logging, join2>>
  /\ UNCHANGED calls

\* variant that forgets the processed ids when it pages again
TimerFiredForgetting ==
  /\ join.pc \in {"delay", "backoff"}
  /\ IF client = Null
     THEN FinishJoin(join.rid,
            <<SystemMessage("Couldn't load more history")>>)
     ELSE /\ join' = [join EXCEPT !.pc = "page", !.wait = 0,
                                  !.processed = {},
                                  !.auth = HasSession]
          /\ UNCHANGED <<bus, isLoadingHistory, result>>
  /\ UNCHANGED <<client, orphans, userId, room, roomState, messageCache,
                 lsRoom, lsCache, lsCreds, srv, timeline, op>>
  /\ UNCHANGED <<logging, join2>>
  /\ UNCHANGED calls

\* the 500 ms delay or the rate-limit wait ends: paginateBackward again
TimerFired ==
  /\ join.pc \in {"delay", "backoff"}
  /\ IF client = Null
     THEN FinishJoin(join.rid,
            <<SystemMessage("Couldn't load more history")>>)
     ELSE /\ join' = [join EXCEPT !.pc = "page", !.wait = 0,
                                  !.auth = HasSession]
          /\ UNCHANGED <<bus, isLoadingHistory, result>>
  /\ UNCHANGED <<client, orphans, userId, room, roomState, messageCache,
                 lsRoom, lsCache, lsCreds, srv, timeline, op>>
  /\ UNCHANGED <<logging, join2>>
  /\ UNCHANGED calls

\* ---------------------------------------------------------------- strings
\* A string is the sequence of its characters.
Digits == {"0", "1", "2", "3", "4", "5", "6", "7", "8", "9"}

DigitVal(c) ==
  CASE c = "0" -> 0 [] c = "1" -> 1 [] c = "2" -> 2 [] c = "3" -> 3
    [] c = "4" -> 4 [] c = "5" -> 5 [] c = "6" -> 6 [] c = "7" -> 7
    [] c = "8" -> 8 [] c = "9" -> 9

\* s matches \d+
IsDigits(s) == Len(s) > 0 /\ \A i \in 1..Len(s) : s[i] \in Digits

\* parseInt(s, 10) of a string of digits
RECURSIVE ParseInt(_)
ParseInt(s) ==
  IF s = <<>> THEN 0
  ELSE 10 * ParseInt(SubSeq(s, 1, Len(s) - 1)) + DigitVal(s[Len(s)])

\* s.startsWith(p)
StartsWith(s, p) == Len(s) >= Len(p) /\ SubSeq(s, 1, Len(p)) = p

\* the positions of the character d at which s splits into \d+ d \d+
SplitsNdM(s) ==
  {k \in 1..Len(s) : /\ s[k] = "d"
                     /\ IsDigits(SubSeq(s, 1, k - 1))
                     /\ IsDigits(SubSeq(s, k + 1, Len(s)))}

\* s.match(/^(\d+)d(\d+)$/)
MatchesNdM(s) == SplitsNdM(s) # {}

\* ------------------------------------------------------------------- dice
\* Math.random() is a value k / RandomDen with 0 <= k < RandomDen; a draw
\* pattern is the sequence of the values k the calls return, cycled.
RandomDen == 1000

\* variant without the "+ 1"
DrawFromZero(pattern, i, sides) ==
  (pattern[((i - 1) % Len(pattern)) + 1] * sides) \div RandomDen

Draw(pattern, i, sides) ==
  ((pattern[((i - 1) % Len(pattern)) + 1] * sides) \div RandomDen) + 1

RECURSIVE SumFrom(_, _, _)
SumFrom(q, lo, hi) ==
  IF lo > hi THEN 0
  ELSE IF lo = hi THEN q[lo]
  ELSE LET mid == (lo + hi) \div 2
       IN SumFrom(q, lo, mid) + SumFrom(q, mid + 1, hi)

\* rolls.reduce((sum, roll) => sum + roll, 0)
SumSeq(q) == SumFrom(q, 1, Len(q))

NoRoll == [ok |-> FALSE, rolls |-> <<>>, total |-> 0]

\* rollDice(notation); ok = FALSE stands for the null result
RollDice(notation, pattern) ==
  IF ~MatchesNdM(notation) THEN NoRoll
  ELSE LET k == CHOOSE k \in SplitsNdM(notation) : TRUE
           count == ParseInt(SubSeq(notation, 1, k - 1))
           sides == ParseInt(SubSeq(notation, k + 1, Len(notation)))
       IN IF count > MaxCount \/ sides > MaxSides THEN NoRoll
          ELSE LET rolls == [i \in 1..count |-> Draw(pattern, i, sides)]
               IN [ok |-> TRUE, rolls |-> rolls, total |-> SumSeq(rolls)]

MaxOf(q) == CHOOSE x \in {q[i] : i \in 1..Len(q)} :
              \A i \in 1..Len(q) : q[i] <= x
MinOf(q) == CHOOSE x \in {q[i] : i \in 1..Len(q)} :
              \A i \in 1..Len(q) : x <= q[i]

\* x % 2 === 0 ? 'even' : 'odd'
EvenOdd(x) == IF x % 2 = 0 THEN "even" ELSE "odd"

\* variant that counts the odd rolls as hits
RollPayloadOddHits(notation, rolls, uid) ==
  [dice |-> notation,
   username |-> uid,
   rolls |-> rolls,
   hits |-> Cardinality({i \in 1..Len(rolls) : rolls[i] % 2 = 1}),
   highEvenOdd |-> IF rolls = <<>> THEN "odd" ELSE EvenOdd(MaxOf(rolls)),
   lowEvenOdd |-> IF rolls = <<>> THEN "odd" ELSE EvenOdd(MinOf(rolls))]

\* lines 846-855: Math.max() and Math.min() of no rolls are -Infinity and
\* Infinity, whose remainder is NaN, so both parities come out 'odd'
RollPayload(notation, rolls, uid) ==
  [dice |-> notation,
   username |-> uid,
   rolls |-> rolls,
   hits |-> Cardinality({i \in 1..Len(rolls) : rolls[i] % 2 = 0}),
   highEvenOdd |-> IF rolls = <<>> THEN "odd" ELSE EvenOdd(MaxOf(rolls)),
   lowEvenOdd |-> IF rolls = <<>> THEN "odd" ELSE EvenOdd(MinOf(rolls))]

\* sendRoll(notation) up to its sendEvent request; lines 827-866
SendRoll(notation, pattern) ==
  /\ IF client = Null \/ room = Null
     THEN /\ Emit(<<ErrorEvent("sendRoll", "Not in a room or not logged in")>>)
          /\ result' = "false"
          /\ UNCHANGED op
     ELSE IF ~RollDice(notation, pattern).ok
     THEN /\ Emit(<<ErrorEvent("sendRoll", "Invalid dice notation")>>)
          /\ result' = "false"
          /\ UNCHANGED op
     ELSE IF userId = Null
     THEN /\ Emit(<<ErrorEvent("sendRoll", "TypeError")>>)
          /\ result' = "false"
          /\ UNCHANGED op
     ELSE /\ op.pc = "idle"
          /\ op' = [pc |-> "sent", rid |-> room, kind |-> "roll", id |-> 0,
                    auth |-> HasSession,
                    payload |-> RollPayload(notation,
                                  RollDice(notation, pattern).rolls, userId)]
          /\ UNCHANGED <<bus, result>>
  /\ UNCHANGED <<client, orphans, userId, room, roomState, messageCache,
                 isLoadingHistory, lsRoom, lsCache, lsCreds,
                 srv, timeline, join>>
  /\ UNCHANGED <<logging, join2>>
  /\ UNCHANGED calls

\* ------------------------------------------------------------- sending
SendKinds == {"game"}

\* a plain line or /scene, /narrate, /roll: the guard and the sendEvent
\* request of sendMessage / sendScene / sendNarration / sendRoll
CmdSend(kind) ==
  /\ IF client = Null \/ room = Null
     THEN /\ Emit(<<ErrorEvent("send", "Not in a room or not logged in")>>)
          /\ result' = "false"
          /\ UNCHANGED op
     ELSE /\ op.pc = "idle"
          /\ op' = [pc |-> "sent", rid |-> room, kind |-> kind, id |-> 0,
                    auth |-> HasSession]
          /\ UNCHANGED <<bus, result>>
  /\ UNCHANGED <<client, orphans, userId, room, roomState, messageCache,
                 isLoadingHistory, lsRoom, lsCache, lsCreds,
                 srv, timeline, join>>
  /\ UNCHANGED <<logging, join2>>
  /\ UNCHANGED calls

\* the server stores the event; its echo can be delivered from now on
SendAccepted ==
  /\ op.pc = "sent"
  /\ op.auth
  /\ Len(srv) < MaxEvents
  /\ srv' = Append(srv, [room |-> op.rid, sender |-> Me, tag |-> op.kind,
                         rpg |-> TRUE, redacted |-> FALSE]
                        @@ (IF op.kind = "roll"
                            THEN [payload |-> op.payload] ELSE NoFields))
  /\ op' = [op EXCEPT !.pc = "accepted", !.id = Len(srv) + 1]
  /\ UNCHANGED <<client, orphans, userId, room, roomState, messageCache,
                 isLoadingHistory, lsRoom, lsCache, lsCreds,
                 bus, result, timeline, join>>
  /\ UNCHANGED <<logging, join2>>
  /\ UNCHANGED calls

\* sendEvent resolves: the record is built and cached
SendResolved(outcome) ==
  /\ op.pc = "accepted"
  /\ LET obj == IF op.kind = "roll"
                THEN RollMessageObj(op.id, op.payload, roomState, room, userId)
                ELSE SentMessageObj(op.id, op.kind, roomState, room, userId)
         st == AddMessageToCache(Store, room, obj, outcome)
     IN /\ messageCache' = st.mem
        /\ lsCache' = st.disk
  /\ result' = "true"
  /\ op' = IdleOp
  /\ UNCHANGED <<client, orphans, userId, room, roomState, isLoadingHistory,
                 lsRoom, lsCreds, bus, srv,
                 timeline, join>>
  /\ UNCHANGED <<logging, join2>>
  /\ UNCHANGED calls

\* the context of the error events of the function that sends kind:
\* 'sendRoll' for sendRoll; those of sendMessage, sendScene and
\* sendNarration are written "send"
SendContext(kind) == IF kind = "roll" THEN "sendRoll" ELSE "send"

\* the message of the catch block of the function that sends kind when the
\* error carries none; lines 509, 561, 606, 907
SendFailure(kind) ==
  CASE kind = "roll" -> "Failed to send roll"
    [] kind = "scene" -> "Failed to send scene"
    [] kind = "narrate" -> "Failed to send narration"
    [] OTHER -> "Failed to send message"

\* sendEvent rejects: the catch block of the sending function reports it
SendRejected ==
  /\ op.pc = "sent"
  /\ Emit(<<ErrorEvent(SendContext(op.kind), SendFailure(op.kind))>>)
  /\ result' = "false"
  /\ op' = IdleOp
  /\ UNCHANGED <<client, orphans, userId, room, roomState, messageCache,
                 isLoadingHistory, lsRoom, lsCache, lsCreds,
                 srv, timeline, join>>
  /\ UNCHANGED <<logging, join2>>
  /\ UNCHANGED calls

\* ------------------------------------------------------ deleteLastMessage
Max(S) == CHOOSE x \in S : \A y \in S : y <= x

\* lines 629-649: the id deleteLastMessage redacts, 0 when there is none
LastMessageId ==
  LET inTimeline == {i \in timeline : srv[i].room = room /\ srv[i].sender = userId}
      msgs == messageCache[room]
      mine == {i \in 1..Len(msgs) : msgs[i].sender = userId}
      newest == CHOOSE i \in mine :
                  \A k \in mine : msgs[k].timestamp <= msgs[i].timestamp
  IN IF inTimeline # {} THEN Max(inTimeline)
     ELSE IF mine # {} THEN msgs[newest].id
     ELSE 0

\* processCommand('/delete') -> deleteLastMessage() up to redactEvent
CmdDelete ==
  /\ IF room = Null
     THEN /\ Emit(<<ErrorEvent("command", "Not in a room")>>)
          /\ result' = "false"
          /\ UNCHANGED op
     ELSE IF client = Null
     THEN /\ Emit(<<ErrorEvent("deleteMessage",
                               "Not in a room or not logged in")>>)
          /\ result' = "false"
          /\ UNCHANGED op
     ELSE IF ~HasSession
     THEN /\ result' = "false"
          /\ UNCHANGED <<bus, op>>
     ELSE IF LastMessageId = 0
     THEN /\ Emit(<<ErrorEvent("deleteMessage",
                               "No messages found to delete")>>)
          /\ result' = "false"
          /\ UNCHANGED op
     ELSE /\ op.pc = "idle"
          /\ op' = [pc |-> "redacting", rid |-> room, kind |-> "",
                    id |-> LastMessageId, auth |-> HasSession]
          /\ UNCHANGED <<bus, result>>
  /\ UNCHANGED <<client, orphans, userId, room, roomState, messageCache,
                 isLoadingHistory, lsRoom, lsCache, lsCreds,
                 srv, timeline, join>>
  /\ UNCHANGED <<logging, join2>>
  /\ UNCHANGED calls

\* client.redactEvent settles; lines 661-674
RedactResolved(ok, outcome) ==
  /\ op.pc = "redacting"
  /\ IF ok
     THEN /\ op.auth
          /\ srv' = [srv EXCEPT ![op.id].redacted = TRUE]
          /\ LET st == MarkRedacted(Store, room, op.id, outcome)
             IN /\ messageCache' = st.mem
                /\ lsCache' = st.disk
          /\ result' = "true"
          /\ UNCHANGED bus
     ELSE /\ outcome = "ok"
          /\ Emit(<<ErrorEvent("deleteMessage", "Failed to delete message")>>)
          /\ result' = "false"
          /\ UNCHANGED <<srv, messageCache, lsCache>>
  /\ op' = IdleOp
  /\ UNCHANGED <<client, orphans, userId, room, roomState, isLoadingHistory,
                 lsRoom, lsCreds, timeline, join>>
  /\ UNCHANGED <<logging, join2>>
  /\ UNCHANGED calls

\* -------------------------------------------------------- clearAllMessages
\* the members of a set of event ids in ascending (timeline) order
RECURSIVE Ascending(_)
Ascending(S) ==
  IF S = {} THEN <<>>
  ELSE LET m == Max(S) IN Append(Ascending(S \ {m}), m)

\* lines 696-718: the ids clearAllMessages redacts, in the order of the loop:
\* the user's messages of the live timeline, then the user's cached records
\* not marked redacted and not among them
UserEvents ==
  LET inTimeline == {i \in timeline : srv[i].room = room /\ srv[i].sender = userId}
      msgs == messageCache[room]
      cached == SelectSeq(msgs, LAMBDA m : m.sender = userId /\ ~m.redacted
                                           /\ m.id \notin inTimeline)
  IN Ascending(inTimeline) \o [k \in 1..Len(cached) |-> cached[k].id]

\* the map of lines 737-742 applied for each id of ids in turn
MarkRedactedAll(msgs, ids) ==
  [i \in 1..Len(msgs) |->
     IF msgs[i].id \in ids THEN [msgs[i] EXCEPT !.redacted = TRUE] ELSE msgs[i]]

\* the 'message' publication of lines 750-757
ClearedMessage(n) ==
  [count |-> n] @@ SystemMessage("Cleared ${userEvents.length} messages")

\* clearAllMessages() up to its first await, of redactEvent for the first
\* of userEvents (line 733)
ClearAllMessages ==
  /\ IF client = Null \/ room = Null
     THEN /\ Emit(<<ErrorEvent("clearMessages",
                               "Not in a room or not logged in")>>)
          /\ result' = "false"
          /\ UNCHANGED clearCall
     ELSE IF ~HasSession
     THEN /\ result' = "false"
          /\ UNCHANGED <<bus, clearCall>>
     ELSE LET userEvents == UserEvents
          IN IF userEvents = <<>>
             THEN /\ Emit(<<ErrorEvent("clearMessages",
                                       "No messages found to delete")>>)
                  /\ result' = "false"
                  /\ UNCHANGED clearCall
             ELSE /\ clearCall.pc = "idle"
                  /\ clearCall' = [pc |-> "redacting", ids |-> userEvents,
                                   k |-> 1, auth |-> TRUE]
                  /\ UNCHANGED <<bus, result>>
  /\ UNCHANGED <<client, orphans, userId, room, roomState, messageCache,
                 isLoadingHistory, lsRoom, lsCache, lsCreds, srv, timeline,
                 join, op>>
  /\ UNCHANGED <<logging, join2, loginCall, leaveCall, refresh>>

\* the pending redactEvent of the loop settles; lines 733-764: the record is
\* marked in the cache of this.room, then the loop calls redactEvent for the
\* next event on the client and room of that moment (a request for an event
\* of another room is not accepted) or, after the last, saves and reports.
\* outcome is that of the one save after the loop.
ClearRedactResolved(ok, outcome) ==
  /\ clearCall.pc = "redacting"
  /\ LET id == clearCall.ids[clearCall.k]
         marked == [messageCache EXCEPT ![room] = MarkRedactedAll(@, {id})]
         st == SaveMessageCache([mem |-> marked, disk |-> lsCache], outcome)
     IN IF ~ok
        THEN /\ outcome = "ok"
             /\ Emit(<<ErrorEvent("clearMessages",
                                  "Failed to clear messages")>>)
             /\ result' = "false"
             /\ clearCall' = IdleClear
             /\ UNCHANGED <<srv, messageCache, lsCache>>
        ELSE /\ clearCall.auth
             /\ srv' = [srv EXCEPT ![id].redacted = TRUE]
             /\ IF clearCall.k < Len(clearCall.ids)
                THEN /\ outcome = "ok"
                     /\ messageCache' = marked
                     /\ UNCHANGED lsCache
                     /\ IF client = Null
                        THEN /\ Emit(<<ErrorEvent("clearMessages",
                                          "Failed to clear messages")>>)
                             /\ result' = "false"
                             /\ clearCall' = IdleClear
                        ELSE /\ clearCall' =
                                  [clearCall EXCEPT !.k = @ + 1,
                                     !.auth =
                                        /\ HasSession
                                        /\ room = srv[clearCall.ids[
                                                    clearCall.k + 1]].room]
                             /\ UNCHANGED <<bus, result>>
                ELSE /\ messageCache' = st.mem
                     /\ lsCache' = st.disk
                     /\ Emit(<<ClearedMessage(Len(clearCall.ids))>>)
                     /\ result' = "true"
                     /\ clearCall' = IdleClear
  /\ UNCHANGED <<client, orphans, userId, room, roomState, isLoadingHistory,
                 lsRoom, lsCreds, timeline, join, op>>
  /\ UNCHANGED <<logging, join2, loginCall, leaveCall, refresh>>

\* ---------------------------------------------------------------- leaving
\* processCommand('/leave') -> leaveRoom() up to its await of client.leave
\* (line 778)
CmdLeave ==
  /\ IF room = Null
     THEN /\ Emit(<<ErrorEvent("command", "Not in a room")>>)
          /\ result' = "false"
          /\ UNCHANGED leaveCall
     ELSE IF client = Null
     THEN /\ Emit(<<ErrorEvent("leaveRoom", "Not in a room or not logged in")>>)
          /\ result' = "false"
          /\ UNCHANGED leaveCall
     ELSE /\ leaveCall.pc = "idle"
          /\ leaveCall' = [pc |-> "leaving", rid |-> room,
                           auth |-> HasSession]
          /\ UNCHANGED <<bus, result>>
  /\ UNCHANGED <<client, orphans, userId, room, roomState, messageCache,
                 isLoadingHistory, lsRoom, lsCache, lsCreds, srv, timeline,
                 join, op>>
  /\ UNCHANGED <<logging, join2, loginCall, refresh, clearCall>>

\* client.leave settles; lines 780-790
LeaveResolved(ok) ==
  /\ leaveCall.pc = "leaving"
  /\ IF ok
     THEN /\ leaveCall.auth
          /\ room' = Null
          /\ lsRoom' = Null
          /\ Emit(<<Pub("roomLeave", "cmd", "", "", <<>>)>>)
          /\ result' = "true"
     ELSE /\ Emit(<<ErrorEvent("leaveRoom", "Failed to leave room")>>)
          /\ result' = "false"
          /\ UNCHANGED <<room, lsRoom>>
  /\ leaveCall' = IdleLeave
  /\ UNCHANGED <<client, orphans, userId, roomState, messageCache,
                 isLoadingHistory, lsCache, lsCreds, srv, timeline, join, op>>
  /\ UNCHANGED <<logging, join2, loginCall, refresh, clearCall>>

\* ------------------------------------------------------- processCommand
\* input.split(' ')
RECURSIVE SplitSp(_)
SplitSp(s) ==
  IF \A i \in 1..Len(s) : s[i] # " " THEN <<s>>
  ELSE LET k == CHOOSE k \in 1..Len(s) :
                  s[k] = " " /\ \A i \in 1..(k - 1) : s[i] # " "
       IN <<SubSeq(s, 1, k - 1)>> \o SplitSp(SubSeq(s, k + 1, Len(s)))

\* input.split(' ')[n], the empty string when it is undefined
Part(s, n) == IF Len(SplitSp(s)) > n THEN SplitSp(s)[n + 1] ELSE <<>>

\* the code points String.prototype.trim strips that a string of this module
\* can hold: space, tab, line feed, carriage return, form feed, and U+000B
\* (vertical tab), U+00A0 (no-break space), U+1680, U+FEFF written as the
\* characters themselves. trim also strips U+2000-U+200A, U+2028, U+2029,
\* U+202F, U+205F and U+3000, which no string literal here can contain.
WhiteSpace ==
  {" ", "\t", "\n", "\r", "\f", "", " ", " ", "﻿"}

\* s.trim()
RECURSIVE Trim(_)
Trim(s) ==
  IF s = <<>> THEN s
  ELSE IF Head(s) \in WhiteSpace THEN Trim(Tail(s))
  ELSE IF s[Len(s)] \in WhiteSpace THEN Trim(SubSeq(s, 1, Len(s) - 1))
  ELSE s

\* s.substring(n)
Substring(s, n) == SubSeq(s, n + 1, Len(s))

KwLogin == <<"/", "l", "o", "g", "i", "n", " ">>
KwJoin == <<"/", "j", "o", "i", "n", " ">>
KwLeave == <<"/", "l", "e", "a", "v", "e">>
KwReset == <<"/", "r", "e", "s", "e", "t">>
KwClearCache == <<"/", "c", "l", "e", "a", "r", "-", "c", "a", "c", "h", "e">>
KwRoll == <<"/", "r", "o", "l", "l", " ">>
KwScene == <<"/", "s", "c", "e", "n", "e", " ">>
KwBareNarrate == <<"n", "a", "r", "r", "a", "t", "e">>
KwNarrate == <<"/", "n", "a", "r", "r", "a", "t", "e", " ">>
KwDelete == <<"/", "d", "e", "l", "e", "t", "e">>
KwLogout == <<"/", "l", "o", "g", "o", "u", "t">>

\* the room a room id names
RoomNamed(w) ==
  IF w = <<"r", "1">> THEN "r1" ELSE IF w = <<"r", "2">> THEN "r2" ELSE Null

\* an error event of context 'command' and return false
CommandError(message) ==
  /\ Emit(<<ErrorEvent("command", message)>>)
  /\ result' = "false"
  /\ UNCHANGED <<client, orphans, userId, room, roomState, messageCache,
                 isLoadingHistory, lsRoom, lsCache, lsCreds,
                 srv, timeline, join, op>>
  /\ UNCHANGED <<logging, join2>>
  /\ UNCHANGED calls

\* lines 941-947: the usage error of '/login', returning {success: false}
LoginUsageError ==
  /\ Emit(<<ErrorEvent("command", "Usage: /login username password")>>)
  /\ result' = "loginFail"
  /\ UNCHANGED <<client, orphans, userId, room, roomState, messageCache,
                 isLoadingHistory, lsRoom, lsCache, lsCreds,
                 srv, timeline, join, op>>
  /\ UNCHANGED <<logging, join2>>
  /\ UNCHANGED calls

\* processCommand(input, type), up to the first protocol request it awaits.
\* pattern is the random draws of a roll.
ProcessCommand(input, type, pattern) ==
  IF input = <<>>
  THEN /\ result' = "false"
       /\ UNCHANGED <<client, orphans, userId, room, roomState, messageCache,
                      isLoadingHistory, lsRoom, lsCache, lsCreds,
                      bus, srv, timeline, join, op>>
       /\ UNCHANGED <<logging, join2>>
       /\ UNCHANGED calls
  ELSE IF StartsWith(input, KwLogin)
  THEN IF Part(input, 1) = <<>> \/ Part(input, 2) = <<>>
       THEN LoginUsageError
       ELSE CmdLogin
  ELSE IF StartsWith(input, KwJoin)
  THEN IF Part(input, 1) = <<>>
       THEN CommandError("Usage: /join #room:matrix.org [INVITE_CODE]")
       ELSE RoomNamed(Part(input, 1)) \in Rooms
            /\ CmdJoin(RoomNamed(Part(input, 1)))
  ELSE IF StartsWith(input, KwLeave) THEN CmdLeave
  ELSE IF StartsWith(input, KwReset) THEN \E ok \in BOOLEAN : Reset(ok)
  ELSE IF StartsWith(input, KwClearCache) THEN ClearMessageCache
  ELSE IF StartsWith(input, KwRoll)
  THEN IF Part(input, 1) = <<>> \/ ~MatchesNdM(Part(input, 1))
       THEN CommandError("Usage: /roll XdY (e.g., /roll 2d6)")
       ELSE SendRoll(Part(input, 1), pattern)
  ELSE IF StartsWith(input, KwScene)
  THEN IF Trim(Substring(input, 7)) = <<>>
       THEN CommandError("Usage: /scene Scene Name")
       ELSE CmdSend("scene")
  ELSE IF input = KwBareNarrate \/ StartsWith(input, KwBareNarrate \o <<" ">>)
  THEN IF input = KwBareNarrate \/ Trim(Substring(input, 8)) = <<>>
       THEN CommandError("Usage: narrate Your narration text")
       ELSE CmdSend("narrate")
  ELSE IF StartsWith(input, KwNarrate)
  THEN IF Trim(Substring(input, 9)) = <<>>
       THEN CommandError("Usage: /narrate Your narration text")
       ELSE CmdSend("narrate")
  ELSE IF StartsWith(input, KwDelete) THEN CmdDelete
  ELSE IF StartsWith(input, KwLogout) THEN Logout
  ELSE IF StartsWith(input, <<"/">>) THEN CommandError("Unknown command")
  ELSE CmdSend(type)

\* ------------------------------------------------ the Room.timeline listener
\* lines 1088-1091: the listener's own duplicate check
AlreadyCached(cache, r, id) == HasId(cache[r], id)

Delivers(viaOrphan) == IF viaOrphan THEN orphans > 0 ELSE client = "started"

\* variant without the check of the event's room against this.room
LiveMessageAnyRoom(id, viaOrphan, outcome) ==
  /\ Delivers(viaOrphan)
  /\ id \in 1..Len(srv)
  /\ timeline' = IF viaOrphan THEN timeline ELSE timeline \cup {id}
  /\ IF srv[id].redacted
        \/ AlreadyCached(messageCache, srv[id].room, id)
     THEN /\ outcome = "ok"
          /\ UNCHANGED <<messageCache, lsCache, bus>>
     ELSE LET obj == LiveMessageObj(id, roomState, userId)
              st == AddMessageToCache(Store, srv[id].room, obj, outcome)
          IN /\ messageCache' = st.mem
             /\ lsCache' = st.disk
             /\ Emit(<<Pub(LiveChannel(id), "live", "", "", <<obj>>)>>)
  /\ UNCHANGED <<client, orphans, userId, room, roomState, isLoadingHistory,
                 lsRoom, lsCreds, result, srv,
                 join, op>>
  /\ UNCHANGED <<logging, join2>>
  /\ UNCHANGED calls

\* a message event is delivered; lines 1077-1160
LiveMessage(id, viaOrphan, outcome) ==
  /\ Delivers(viaOrphan)
  /\ id \in 1..Len(srv)
  /\ timeline' = IF viaOrphan THEN timeline ELSE timeline \cup {id}
  /\ IF srv[id].room # room \/ srv[id].redacted
        \/ AlreadyCached(messageCache, srv[id].room, id)
     THEN /\ outcome = "ok"
          /\ UNCHANGED <<messageCache, lsCache, bus>>
     ELSE LET obj == LiveMessageObj(id, roomState, userId)
              st == AddMessageToCache(Store, srv[id].room, obj, outcome)
          IN /\ messageCache' = st.mem
             /\ lsCache' = st.disk
             /\ Emit(<<Pub(LiveChannel(id), "live", "", "", <<obj>>)>>)
  /\ UNCHANGED <<client, orphans, userId, room, roomState, isLoadingHistory,
                 lsRoom, lsCreds, result, srv,
                 join, op>>
  /\ UNCHANGED <<logging, join2>>
  /\ UNCHANGED calls

\* the redaction event of server event id is delivered; lines 1161-1174
LiveRedaction(id, viaOrphan, outcome) ==
  /\ Delivers(viaOrphan)
  /\ id \in 1..Len(srv)
  /\ srv[id].redacted
  /\ IF srv[id].room # room
     THEN /\ outcome = "ok"
          /\ UNCHANGED <<messageCache, lsCache>>
     ELSE LET st == MarkRedacted(Store, srv[id].room, id, outcome)
          IN /\ messageCache' = st.mem
             /\ lsCache' = st.disk
  /\ UNCHANGED <<client, orphans, userId, room, roomState, isLoadingHistory,
                 lsRoom, lsCreds, bus, result, srv,
                 timeline, join, op>>
  /\ UNCHANGED <<logging, join2>>
  /\ UNCHANGED calls

\* an m.room.member or m.room.power_levels event of room r is delivered;
\* lines 1079 and 1176-1179: the listener calls _updateRoomState(r) without
\* awaiting it; the call runs up to its await of getStateEvent (line 435)
LiveStateEvent(r, viaOrphan) ==
  /\ Delivers(viaOrphan)
  /\ IF r # room
     THEN UNCHANGED <<bus, refresh>>
     ELSE IF client = Null
     THEN /\ Emit(<<ErrorEvent("roomState", "Failed to update room state")>>)
          /\ UNCHANGED refresh
     ELSE /\ refresh.pc = "idle"
          /\ refresh' = [pc |-> "state1", rid |-> r, users |-> FALSE,
                         auth |-> HasSession]
          /\ UNCHANGED bus
  /\ UNCHANGED <<client, orphans, userId, room, roomState, messageCache,
                 isLoadingHistory, lsRoom, lsCache, lsCreds, result, srv,
                 timeline, join, op>>
  /\ UNCHANGED <<logging, join2, loginCall, leaveCall, clearCall>>

\* getStateEvent of the listener's refresh settles; users is whether the
\* power levels carry a users map. Line 436 calls getJoinedRoomMembers on
\* the client of that moment.
RefreshStateResolved(ok, users) ==
  /\ refresh.pc = "state1"
  /\ IF ok /\ client # Null
     THEN /\ refresh.auth
          /\ refresh' = [refresh EXCEPT !.pc = "state2", !.users = users,
                                        !.auth = HasSession]
          /\ UNCHANGED bus
     ELSE /\ ok => refresh.auth
          /\ users
          /\ Emit(<<ErrorEvent("roomState", "Failed to update room state")>>)
          /\ refresh' = IdleRefresh
  /\ UNCHANGED <<client, orphans, userId, room, roomState, messageCache,
                 isLoadingHistory, lsRoom, lsCache, lsCreds, result, srv,
                 timeline, join, op>>
  /\ UNCHANGED <<logging, join2, loginCall, leaveCall, clearCall>>

\* getJoinedRoomMembers of the listener's refresh settles; lines 437-467
RefreshMembersResolved(ok) ==
  /\ refresh.pc = "state2"
  /\ IF ok
     THEN /\ refresh.auth
          /\ roomState' = [roomState EXCEPT ![refresh.rid] =
                             [present |-> TRUE,
                              members |-> IF refresh.users THEN Users
                                          ELSE {}]]
          /\ Emit(<<IF refresh.users
                    THEN Pub("roomState", "live", refresh.rid, "", <<>>)
                    ELSE ErrorEvent("roomState",
                                    "Failed to update room state")>>)
     ELSE /\ Emit(<<ErrorEvent("roomState", "Failed to update room state")>>)
          /\ UNCHANGED roomState
  /\ refresh' = IdleRefresh
  /\ UNCHANGED <<client, orphans, userId, room, messageCache,
                 isLoadingHistory, lsRoom, lsCache, lsCreds, result, srv,
                 timeline, join, op>>
  /\ UNCHANGED <<logging, join2, loginCall, leaveCall, clearCall>>

\* the client emits 'sync.error'; lines 1183-1188
SyncError(viaOrphan) ==
  /\ Delivers(viaOrphan)
  /\ Emit(<<ErrorEvent("sync", "Sync error")>>)
  /\ UNCHANGED <<client, orphans, userId, room, roomState, messageCache,
                 isLoadingHistory, lsRoom, lsCache, lsCreds, result, srv,
                 timeline, join, op>>
  /\ UNCHANGED <<logging, join2>>
  /\ UNCHANGED calls

\* ------------------------------------------------------------- the server
PostKinds == {[tag |-> "none", rpg |-> FALSE], [tag |-> "roll", rpg |-> TRUE]}

\* another member posts a message event in room r
OtherPost(r, kind) ==
  /\ Len(srv) < MaxEvents
  /\ srv' = Append(srv, [room |-> r, sender |-> Bob, tag |-> kind.tag,
                         rpg |-> kind.rpg, redacted |-> FALSE])
  /\ UNCHANGED <<client, orphans, userId, room, roomState, messageCache,
                 isLoadingHistory, lsRoom, lsCache, lsCreds,
                 bus, result, timeline, join, op>>
  /\ UNCHANGED <<logging, join2>>
  /\ UNCHANGED calls

\* another member (a moderator) redacts event id
OtherRedact(id) ==
  /\ id \in 1..Len(srv)
  /\ ~srv[id].redacted
  /\ srv' = [srv EXCEPT ![id].redacted = TRUE]
  /\ UNCHANGED <<client, orphans, userId, room, roomState, messageCache,
                 isLoadingHistory, lsRoom, lsCache, lsCreds,
                 bus, result, timeline, join, op>>
  /\ UNCHANGED <<logging, join2>>
  /\ UNCHANGED calls

\* ------------------------------------------------------------------- Spec
\* Joining, history loading and the live listener, with the bus logged.
\* The user logs in when logged out and joins room r1; other members post
\* in both rooms; storage does not fail.
Next ==
  \/ client = Null /\ CmdLogin
  \/ LoginResolved(TRUE, 4)
  \/ StartResolved(TRUE)
  \/ CmdJoin("r1")
  \/ \E ok \in BOOLEAN : JoinRoomResolved(ok)
  \/ \E ok \in BOOLEAN : StateEventResolved(ok, TRUE, "ok")
  \/ \E ok \in BOOLEAN : MembersResolved(ok, "ok")
  \/ \E kind \in {"chunk", "error"}, end \in BOOLEAN :
       PageResolved(kind, end, "ok", 0)
  \/ TimerFired
  \/ \E id \in 1..MaxEvents : LiveMessage(id, FALSE, "ok")
  \/ \E r \in Rooms, kind \in PostKinds : OtherPost(r, kind)
  \/ \E id \in 1..MaxEvents : OtherRedact(id)
  \/ ClearMessageCache

Spec == Init /\ [][Next]_vars

\* --------------------------------------------------------------- SpecLive
\* The user may log in again while logged in: the protocol client that is
\* replaced is not stopped, so its Room.timeline listener keeps delivering
\* events to the same handlers. One room is joined, its history has one
\* page, and the cache may be cleared.
NextLive ==
  \/ client = Null /\ CmdLogin
  \/ client = "started" /\ CmdLogin
  \/ LoginResolved(TRUE, 4)
  \/ StartResolved(TRUE)
  \/ CmdJoin("r1")
  \/ JoinRoomResolved(TRUE)
  \/ StateEventResolved(FALSE, TRUE, "ok")
  \/ PageResolved("chunk", FALSE, "ok", 0)
  \/ \E id \in 1..MaxEvents, v \in BOOLEAN : LiveMessage(id, v, "ok")
  \/ \E r \in Rooms : OtherPost(r, [tag |-> "none", rpg |-> FALSE])
  \/ ClearMessageCache

SpecLive == Init /\ [][NextLive]_vars

\* ----------------------------------------------------------- SpecCacheOps
\* Every operation that touches the cache, in both rooms; the save after a
\* send may fail; the bus is not logged.
NextCacheOps ==
  \/ client = Null /\ CmdLogin
  \/ LoginResolved(TRUE, 4)
  \/ StartResolved(TRUE)
  \/ \E r \in Rooms : CmdJoin(r)
  \/ JoinRoomResolved(TRUE)
  \/ StateEventResolved(FALSE, TRUE, "ok")
  \/ \E end \in BOOLEAN : PageResolved("chunk", end, "ok", 0)
  \/ TimerFired
  \/ \E k \in SendKinds : CmdSend(k)
  \/ SendAccepted
  \/ \E o \in {"ok", "other"} : SendResolved(o)
  \/ \E id \in 1..MaxEvents : LiveMessage(id, FALSE, "ok")
  \/ \E id \in 1..MaxEvents : LiveRedaction(id, FALSE, "ok")
  \/ \E r \in Rooms : OtherPost(r, [tag |-> "none", rpg |-> FALSE])
  \/ \E id \in 1..MaxEvents : OtherRedact(id)

SpecCacheOps == InitQuiet /\ [][NextCacheOps]_vars

\* ---------------------------------------------------------------- SpecCmd
\* Sessions: logging in (with success or failure) and out, resetting,
\* restarting the process on the persisted storage, joining and leaving
\* rooms, while other members post and the live listener caches.
NextCmd ==
  \/ client # "started" /\ CmdLogin
  \/ \E ok \in BOOLEAN : LoginResolved(ok, 4)
  \/ StartResolved(TRUE)
  \/ Logout
  \/ Reset(TRUE)
  \/ Constructor
  \/ CmdJoin("r1")
  \/ \E ok \in BOOLEAN : JoinRoomResolved(ok)
  \/ CmdLeave
  \/ LeaveResolved(TRUE)
  \/ OtherPost("r1", [tag |-> "none", rpg |-> FALSE])
  \/ \E id \in 1..MaxEvents : LiveMessage(id, FALSE, "ok")

SpecCmd == Init /\ [][NextCmd]_vars

\* ------------------------------------------------------------- SpecInterp
\* Lines typed by the user, as processCommand receives them
\* '/login u p'
InLoginUP == <<"/", "l", "o", "g", "i", "n", " ", "u", " ", "p">>
\* '/login'
InLoginBare == <<"/", "l", "o", "g", "i", "n">>
\* '/join r1'
InJoinR1 == <<"/", "j", "o", "i", "n", " ", "r", "1">>
\* '/join'
InJoinBare == <<"/", "j", "o", "i", "n">>
\* '/leave'
InLeave == <<"/", "l", "e", "a", "v", "e">>
\* '/leaves'
InLeaves == <<"/", "l", "e", "a", "v", "e", "s">>
\* '/reset'
InReset == <<"/", "r", "e", "s", "e", "t">>
\* '/clear-cache'
InClearCache == <<"/", "c", "l", "e", "a", "r", "-", "c", "a", "c", "h", "e">>
\* '/roll 2d6'
InRoll2d6 == <<"/", "r", "o", "l", "l", " ", "2", "d", "6">>
\* '/roll'
InRollBare == <<"/", "r", "o", "l", "l">>
\* '/scene s'
InSceneS == <<"/", "s", "c", "e", "n", "e", " ", "s">>
\* '/scene ' followed by a tab and U+000B: only white space after the keyword
InSceneBlank == <<"/", "s", "c", "e", "n", "e", " ", "\t", "">>
\* '/narrate n'
InNarrateN == <<"/", "n", "a", "r", "r", "a", "t", "e", " ", "n">>
\* 'narrate n'
InBareNarrateN == <<"n", "a", "r", "r", "a", "t", "e", " ", "n">>
\* '/delete'
InDelete == <<"/", "d", "e", "l", "e", "t", "e">>
\* '/logout'
InLogout == <<"/", "l", "o", "g", "o", "u", "t">>
\* '/logoutx'
InLogoutx == <<"/", "l", "o", "g", "o", "u", "t", "x">>
\* '/help'
InHelp == <<"/", "h", "e", "l", "p">>
\* '/'
InSlash == <<"/">>
\* 'hi'
InHi == <<"h", "i">>

Inputs == {<<>>, InLoginUP, InLoginBare, InJoinR1, InJoinBare, InLeave, InLeaves, InReset, InClearCache, InRoll2d6, InRollBare, InSceneS, InSceneBlank, InNarrateN, InBareNarrateN, InDelete, InLogout, InLogoutx, InHelp, InSlash, InHi}

\* processCommand(input, 'chat') typed while no login or leave request is
\* pending and the log holds at most one event; a second login is typed
\* only after a logout
InterpCommand(input) ==
  /\ Len(bus) <= 1
  /\ StartsWith(input, KwLogin) => client # "started"
  /\ loginCall.pc = "idle" /\ leaveCall.pc = "idle"
  /\ ProcessCommand(input, "chat", <<500, 0>>)

\* the requests the commands start settle, and the process restarts on the
\* persisted storage
InterpSettle ==
  \/ \E ok \in BOOLEAN : LoginResolved(ok, 4)
  \/ StartResolved(TRUE)
  \/ LeaveResolved(TRUE)
  \/ \E ok \in BOOLEAN : JoinRoomResolved(ok)
  \/ srv = <<>> /\ SendAccepted
  \/ SendResolved("ok")
  \/ SendRejected
  \/ \E ok \in BOOLEAN : RedactResolved(ok, "ok")
  \/ Constructor

\* Sessions driven through processCommand alone, with the log of published
\* events: every sample line, sessionStorage accepting the write of reset.
NextInterp ==
  \/ \E input \in Inputs : InterpCommand(input) /\ result' # "throws"
  \/ InterpSettle

SpecInterp == Init /\ [][NextInterp]_vars

\* The same sessions without the log: reset's sessionStorage write succeeds
\* or throws, and a start or a leave request can be rejected.
NextInterpQuiet ==
  \/ \E input \in Inputs : InterpCommand(input)
  \/ InterpSettle
  \/ StartResolved(FALSE)
  \/ LeaveResolved(FALSE)

SpecInterpQuiet == InitQuiet /\ [][NextInterpQuiet]_vars

\* --------------------------------------------------------------- SpecLoad
\* retry_after_ms of a rate-limit error; 0 stands for an error without one
RetryAfters == {0, 2000}

\* History loading against a server that pages, rate-limits and fails,
\* while another member posts in the room and the live listener runs.
NextLoad ==
  \/ client = Null /\ CmdLogin
  \/ LoginResolved(TRUE, 4)
  \/ StartResolved(TRUE)
  \/ CmdJoin("r1")
  \/ JoinRoomResolved(TRUE)
  \/ StateEventResolved(FALSE, TRUE, "ok")
  \/ \E kind \in {"chunk", "ratelimit", "error"}, end \in BOOLEAN,
        ra \in RetryAfters : PageResolved(kind, end, "ok", ra)
  \/ TimerFired
  \/ OtherPost("r1", [tag |-> "none", rpg |-> FALSE])
  \/ \E id \in 1..MaxEvents : LiveMessage(id, FALSE, "ok")

SpecLoad == Init /\ [][NextLoad]_vars

\* The same loads without the log of published events, under the
\* scheduling the runtime gives: a timer that is armed fires, and a page
\* request that is re-issued again and again is not rate-limited for ever.
LoadFairness ==
  /\ WF_vars(TimerFired)
  /\ SF_vars(\/ \E end \in BOOLEAN : PageResolved("chunk", end, "ok", 0)
             \/ PageResolved("error", FALSE, "ok", 0))

SpecLoadFair == InitQuiet /\ [][NextLoad]_vars /\ LoadFairness

\* -------------------------------------------------------------- SpecState
\* Joins and re-joins of room r1 whose room-state refresh succeeds or fails
\* at each of its steps; the history load that follows gets one last page.
\* Membership events of r1 start the listener's refresh, which settles
\* either way, and the client reports sync errors.
NextState ==
  \/ client = Null /\ CmdLogin
  \/ LoginResolved(TRUE, 4)
  \/ StartResolved(TRUE)
  \/ CmdJoin("r1")
  \/ JoinRoomResolved(TRUE)
  \/ \E ok \in BOOLEAN, users \in BOOLEAN : StateEventResolved(ok, users, "ok")
  \/ \E ok \in BOOLEAN : MembersResolved(ok, "ok")
  \/ PageResolved("chunk", FALSE, "ok", 0)
  \/ OtherPost("r1", [tag |-> "none", rpg |-> FALSE])
  \/ \E id \in 1..MaxEvents : LiveMessage(id, FALSE, "ok")
  \/ LiveStateEvent("r1", FALSE)
  \/ \E ok \in BOOLEAN, users \in BOOLEAN : RefreshStateResolved(ok, users)
  \/ \E ok \in BOOLEAN : RefreshMembersResolved(ok)
  \/ SyncError(FALSE)

SpecState == Init /\ [][NextState]_vars

\* ------------------------------------------------------------- SpecListen
\* what other clients put in formatted_body.type and format: no tag, the
\* tags of this client with and without its format, and a foreign tag
ListenKinds ==
  {[tag |-> "none", rpg |-> FALSE], [tag |-> "roll", rpg |-> TRUE],
   [tag |-> "roll", rpg |-> FALSE], [tag |-> "scene", rpg |-> TRUE],
   [tag |-> "whisper", rpg |-> TRUE]}

\* The live listener of a client that has r1 or r2 as its current room,
\* while other members post, redact and change membership in both rooms.
NextListen ==
  \/ client = Null /\ CmdLogin
  \/ LoginResolved(TRUE, 4)
  \/ StartResolved(TRUE)
  \/ \E r \in Rooms : room = Null /\ CmdJoin(r)
  \/ JoinRoomResolved(TRUE)
  \/ \E r \in Rooms, kind \in ListenKinds : OtherPost(r, kind)
  \/ \E id \in 1..MaxEvents : OtherRedact(id)
  \/ \E id \in 1..MaxEvents : LiveMessage(id, FALSE, "ok")
  \/ \E id \in 1..MaxEvents : LiveRedaction(id, FALSE, "ok")
  \/ \E r \in Rooms : LiveStateEvent(r, FALSE)
  \/ RefreshStateResolved(TRUE, TRUE)
  \/ RefreshMembersResolved(TRUE)

SpecListen == Init /\ [][NextListen]_vars

\* --------------------------------------------------------------- SpecRoll
\* Rolling dice in a joined room: '/roll <notation>' and direct calls of
\* sendRoll, with notations written from sample counts and sides and with
\* malformed notations; the bus is not logged.
DigitChar(n) ==
  CASE n = 0 -> "0" [] n = 1 -> "1" [] n = 2 -> "2" [] n = 3 -> "3"
    [] n = 4 -> "4" [] n = 5 -> "5" [] n = 6 -> "6" [] n = 7 -> "7"
    [] n = 8 -> "8" [] n = 9 -> "9"

\* the decimal numeral of n
RECURSIVE ToStr(_)
ToStr(n) ==
  IF n < 10 THEN <<DigitChar(n)>>
  ELSE ToStr(n \div 10) \o <<DigitChar(n % 10)>>

SampleCounts == {0, 1, 2, MaxCount, MaxCount + 1}
SampleSides == {0, 1, 6, MaxSides, MaxSides + 1}

\* notations of the form <count>d<sides>, with the numbers they were
\* written from
WellFormed ==
  {[count |-> c, sides |-> m, text |-> ToStr(c) \o <<"d">> \o ToStr(m)] :
     c \in SampleCounts, m \in SampleSides}

\* notations not of that form: "d6", "2x6", "2d", "", "2D6", "-1d6", "2d6x"
Malformed ==
  {<<"d", "6">>, <<"2", "x", "6">>, <<"2", "d">>, <<>>, <<"2", "D", "6">>,
   <<"-", "1", "d", "6">>, <<"2", "d", "6", "x">>}

Notations == {n.text : n \in WellFormed} \cup Malformed
Patterns == {<<0>>, <<999>>, <<500, 0>>}

\* the user rolls until the server has stored one roll
NextRoll ==
  \/ client = Null /\ CmdLogin
  \/ LoginResolved(TRUE, 4)
  \/ StartResolved(TRUE)
  \/ CmdJoin("r1")
  \/ JoinRoomResolved(TRUE)
  \/ \E n \in Notations, pt \in Patterns :
       srv = <<>> /\ ProcessCommand(KwRoll \o n, "chat", pt)
  \/ \E n \in Malformed : srv = <<>> /\ SendRoll(n, <<0>>)
  \/ SendAccepted
  \/ SendResolved("ok")
  \/ SendRejected
  \/ \E id \in 1..MaxEvents : LiveMessage(id, FALSE, "ok")

SpecRoll == InitQuiet /\ [][NextRoll]_vars

\* -------------------------------------------------------------- SpecPrune
\* A process started on a storage that an earlier session filled: room r1
\* holds PruneLimit - 1 or PruneLimit records, room r2 two.  The server log
\* has PruneLimit + 4 events, the last ones not yet cached.  Storage may
\* fail on every save.
StoredEvent(i) ==
  [room |-> IF i <= 2 THEN "r2" ELSE "r1",
   sender |-> IF i \in {2, PruneLimit + 1} THEN Me ELSE Bob,
   tag |-> "none", rpg |-> FALSE, redacted |-> FALSE]

StoredRecord(i) ==
  Msg(i, StoredEvent(i).sender, StoredEvent(i).room, "chat", 0, ServerTs(i),
      FALSE, StoredEvent(i).sender = Me)

StoredCache(n) ==
  [k \in CacheKeys |->
     IF k = "r2" THEN <<StoredRecord(1), StoredRecord(2)>>
     ELSE IF k = "r1" THEN [i \in 1..n |-> StoredRecord(i + 2)]
     ELSE <<>>]

PruneLens == {PruneLimit - 1, PruneLimit}
PruneIds == {3} \cup ((PruneLimit + 3)..(PruneLimit + 4))
PruneOutcomes == {"ok", "quota"}

InitPrune ==
  /\ \E n \in PruneLens : lsCache = StoredCache(n)
  /\ messageCache = lsCache
  /\ srv = [i \in 1..(PruneLimit + 4) |-> StoredEvent(i)]
  /\ lsRoom = "r1"
  /\ room = lsRoom
  /\ lsCreds = CredKeys
  /\ client = Null
  /\ orphans = 0
  /\ userId = Null
  /\ roomState = EmptyRoomState
  /\ isLoadingHistory = FALSE
  /\ bus = <<>>
  /\ result = "none"
  /\ timeline = {}
  /\ join = IdleJoin
  /\ join2 = IdleJoin
  /\ loginCall = IdleLogin
  /\ leaveCall = IdleLeave
  /\ refresh = IdleRefresh
  /\ clearCall = IdleClear
  /\ op = IdleOp
  /\ logging = FALSE

NextPrune ==
  \/ client = Null /\ CmdLogin
  \/ LoginResolved(TRUE, 4)
  \/ StartResolved(TRUE)
  \/ \E id \in PruneIds, o \in PruneOutcomes : LiveMessage(id, FALSE, o)
  \/ \E o \in PruneOutcomes : LiveRedaction(3, FALSE, o)
  \/ OtherRedact(3)
  \/ CmdDelete
  \/ \E ok \in BOOLEAN, o \in PruneOutcomes : RedactResolved(ok, o)

SpecPrune == InitPrune /\ [][NextPrune]_vars

\* The same storage with the bus logged: live messages and the redaction
\* of the oldest record of r1, each save succeeding or failing on quota.
InitPruneLog ==
  /\ \E n \in PruneLens : lsCache = StoredCache(n)
  /\ messageCache = lsCache
  /\ srv = [i \in 1..(PruneLimit + 4) |-> StoredEvent(i)]
  /\ lsRoom = "r1"
  /\ room = lsRoom
  /\ lsCreds = CredKeys
  /\ client = Null
  /\ orphans = 0
  /\ userId = Null
  /\ roomState = EmptyRoomState
  /\ isLoadingHistory = FALSE
  /\ bus = <<>>
  /\ result = "none"
  /\ timeline = {}
  /\ join = IdleJoin
  /\ join2 = IdleJoin
  /\ loginCall = IdleLogin
  /\ leaveCall = IdleLeave
  /\ refresh = IdleRefresh
  /\ clearCall = IdleClear
  /\ op = IdleOp
  /\ logging = TRUE

NextPruneLog ==
  \/ client = Null /\ CmdLogin
  \/ LoginResolved(TRUE, 4)
  \/ StartResolved(TRUE)
  \/ \E id \in PruneIds, o \in PruneOutcomes : LiveMessage(id, FALSE, o)
  \/ \E o \in PruneOutcomes : LiveRedaction(3, FALSE, o)
  \/ OtherRedact(3)

SpecPruneLog == InitPruneLog /\ [][NextPruneLog]_vars

\* -------------------------------------------------------------- SpecStore
\* The preloaded storage of SpecPrune with every way the cache is written:
\* live messages, /delete, clearAllMessages and /clear-cache,
\* each save succeeding or failing on quota.
NextStore ==
  \/ client = Null /\ CmdLogin
  \/ LoginResolved(TRUE, 4)
  \/ StartResolved(TRUE)
  \/ \E id \in (PruneLimit + 3)..(PruneLimit + 4), o \in PruneOutcomes :
       LiveMessage(id, FALSE, o)
  \/ CmdDelete
  \/ \E ok \in BOOLEAN, o \in PruneOutcomes : RedactResolved(ok, o)
  \/ ClearAllMessages
  \/ \E o \in PruneOutcomes : ClearRedactResolved(TRUE, o)
  \/ ClearMessageCache

SpecStore == InitPrune /\ [][NextStore]_vars

\* -------------------------------------------------------------- SpecClear
\* One room in which the user sends, deletes and clears messages while live
\* events arrive; storage never fails, any redactEvent call of
\* clearAllMessages may reject; the bus is not logged.
NextClear ==
  \/ client = Null /\ CmdLogin
  \/ LoginResolved(TRUE, 4)
  \/ StartResolved(TRUE)
  \/ CmdJoin("r1")
  \/ JoinRoomResolved(TRUE)
  \/ StateEventResolved(FALSE, TRUE, "ok")
  \/ PageResolved("chunk", FALSE, "ok", 0)
  \/ CmdSend("chat")
  \/ SendAccepted
  \/ SendResolved("ok")
  \/ \E id \in 1..MaxEvents : LiveMessage(id, FALSE, "ok")
  \/ \E id \in 1..MaxEvents : LiveRedaction(id, FALSE, "ok")
  \/ CmdDelete
  \/ \E ok \in BOOLEAN : RedactResolved(ok, "ok")
  \/ ClearAllMessages
  \/ \E ok \in BOOLEAN : ClearRedactResolved(ok, "ok")

SpecClear == InitQuiet /\ [][NextClear]_vars

\* -------------------------------------------------------------- SpecQuota
\* The preloaded storage with the bus logged: live messages and /delete,
\* each save ending in one of the four ways _saveMessageCache distinguishes.
NextQuota ==
  \/ client = Null /\ CmdLogin
  \/ LoginResolved(TRUE, 4)
  \/ StartResolved(TRUE)
  \/ \E id \in (PruneLimit + 3)..(PruneLimit + 4), o \in StorageOutcomes :
       LiveMessage(id, FALSE, o)
  \/ client = "started" /\ CmdDelete
  \/ \E o \in StorageOutcomes : RedactResolved(TRUE, o)

SpecQuota == InitPruneLog /\ [][NextQuota]_vars

\* -------------------------------------------------------------- SpecToken
\* A page load on a storage holding any subset of the four credential keys,
\* with or without a stored room; then token logins, password logins,
\* logouts, resets and reloads.
InitToken ==
  /\ client = Null
  /\ orphans = 0
  /\ userId = Null
  /\ lsRoom \in {Null, "r1"}
  /\ room = lsRoom
  /\ roomState = EmptyRoomState
  /\ messageCache = EmptyCache
  /\ isLoadingHistory = FALSE
  /\ lsCache = EmptyCache
  /\ lsCreds \in SUBSET CredKeys
  /\ bus = <<>>
  /\ result = "none"
  /\ srv = <<>>
  /\ timeline = {}
  /\ join = IdleJoin
  /\ join2 = IdleJoin
  /\ loginCall = IdleLogin
  /\ leaveCall = IdleLeave
  /\ refresh = IdleRefresh
  /\ clearCall = IdleClear
  /\ op = IdleOp
  /\ logging = TRUE

NextToken ==
  \/ CmdLoginWithToken
  \/ \E ok \in BOOLEAN : TokenStartResolved(ok)
  \/ CmdLogin
  \/ \E ok \in BOOLEAN : LoginResolved(ok, 4)
  \/ \E ok \in BOOLEAN : StartResolved(ok)
  \/ Logout
  \/ Reset(TRUE)
  \/ Constructor

SpecToken == InitToken /\ [][NextToken]_vars

\* --------------------------------------------------------------- SpecDeep
\* A server whose room r1 holds about one page of history or a little more
\* (PageLimit - 1 .. PageLimit + 1 events) and an empty local cache; every
\* request succeeds and the response carries an end token exactly when the
\* room has events older than the page returned.
DeepLens == (PageLimit + 1)..(PageLimit + 3)

InitDeep ==
  /\ client = Null
  /\ orphans = 0
  /\ userId = Null
  /\ lsRoom = Null
  /\ room = lsRoom
  /\ roomState = EmptyRoomState
  /\ messageCache = EmptyCache
  /\ isLoadingHistory = FALSE
  /\ lsCache = EmptyCache
  /\ lsCreds = {}
  /\ bus = <<>>
  /\ result = "none"
  /\ \E n \in DeepLens : srv = [i \in 1..n |-> StoredEvent(i)]
  /\ timeline = {}
  /\ join = IdleJoin
  /\ join2 = IdleJoin
  /\ loginCall = IdleLogin
  /\ leaveCall = IdleLeave
  /\ refresh = IdleRefresh
  /\ clearCall = IdleClear
  /\ op = IdleOp
  /\ logging = FALSE

\* response.end of createMessagesRequest(r, null, limit, 'b')
ServerEnd(r) == Len(EventsOf(r, 1..Len(srv), 1)) > PageLimit

NextDeep ==
  \/ client = Null /\ CmdLogin
  \/ LoginResolved(TRUE, 4)
  \/ StartResolved(TRUE)
  \/ \E r \in Rooms : CmdJoin(r)
  \/ JoinRoomResolved(TRUE)
  \/ StateEventResolved(TRUE, TRUE, "ok")
  \/ MembersResolved(TRUE, "ok")
  \/ PageResolved("chunk", ServerEnd(join.rid), "ok", 0)
  \/ TimerFired
  \/ \E id \in {1, 3, Len(srv)} : LiveMessage(id, FALSE, "ok")

SpecDeep == InitDeep /\ [][NextDeep]_vars

\* --------------------------------------------------------------- SpecEcho
\* One login and one completed join of r1, then sends whose live echo is
\* delivered before or after the send request resolves; the bus is logged.
NextEcho ==
  \/ client = Null /\ CmdLogin
  \/ LoginResolved(TRUE, 4)
  \/ StartResolved(TRUE)
  \/ room = Null /\ CmdJoin("r1")
  \/ JoinRoomResolved(TRUE)
  \/ StateEventResolved(TRUE, TRUE, "ok")
  \/ MembersResolved(TRUE, "ok")
  \/ PageResolved("chunk", FALSE, "ok", 0)
  \/ \E k \in {"chat", "narrate", "scene"} : join.pc = "idle" /\ CmdSend(k)
  \/ SendAccepted
  \/ SendResolved("ok")
  \/ \E id \in 1..MaxEvents : LiveMessage(id, FALSE, "ok")

SpecEcho == Init /\ [][NextEcho]_vars

\* ------------------------------------------------------------- SpecReplay
\* Other members post events of every kind in r1; the client receives them
\* live, leaves them to a history page, or replays them from the cache on a
\* later join; the bus is logged.
NextReplay ==
  \/ client = Null /\ CmdLogin
  \/ LoginResolved(TRUE, 4)
  \/ StartResolved(TRUE)
  \/ CmdJoin("r1")
  \/ JoinRoomResolved(TRUE)
  \/ StateEventResolved(FALSE, TRUE, "ok")
  \/ PageResolved("chunk", FALSE, "ok", 0)
  \/ \E kind \in ListenKinds : OtherPost("r1", kind)
  \/ \E id \in 1..MaxEvents : LiveMessage(id, FALSE, "ok")

SpecReplay == Init /\ [][NextReplay]_vars

\* ----------------------------------------------------------- SpecTwoJoins
\* joinRoom has no guard against a call made while an earlier call is
\* suspended at an await.  Two calls can be in flight: the actions of a join
\* act on the one held in join, and SwitchJoin lets the other one be the
\* next to resume.
SwitchJoin ==
  /\ join.pc # "idle" \/ join2.pc # "idle"
  /\ join' = join2
  /\ join2' = join
  /\ UNCHANGED <<client, orphans, userId, room, roomState, messageCache,
                 isLoadingHistory, lsRoom, lsCache, lsCreds, bus, result,
                 srv, timeline, op, logging>>
  /\ UNCHANGED calls

NextTwoJoins ==
  \/ client = Null /\ CmdLogin
  \/ LoginResolved(TRUE, 4)
  \/ StartResolved(TRUE)
  \/ CmdJoin("r1")
  \/ JoinRoomResolved(TRUE)
  \/ StateEventResolved(FALSE, TRUE, "ok")
  \/ \E end \in BOOLEAN : PageResolved("chunk", end, "ok", 0)
  \/ TimerFired
  \/ OtherPost("r1", [tag |-> "none", rpg |-> FALSE])
  \/ SwitchJoin

SpecTwoJoins == InitQuiet /\ [][NextTwoJoins]_vars

\* ---------------------------------------------------------- SpecLeaveRace
\* A join of r1 with /leave, /logout and /reset processed at any moment,
\* also while the join is suspended at one of its requests; the bus is
\* logged.
NextLeaveRace ==
  \/ client = Null /\ CmdLogin
  \/ LoginResolved(TRUE, 4)
  \/ StartResolved(TRUE)
  \/ CmdJoin("r1")
  \/ JoinRoomResolved(TRUE)
  \/ StateEventResolved(FALSE, TRUE, "ok")
  \/ PageResolved("chunk", FALSE, "ok", 0)
  \/ CmdLeave
  \/ LeaveResolved(TRUE)
  \/ Logout
  \/ Reset(TRUE)
  \/ OtherPost("r1", [tag |-> "none", rpg |-> FALSE])

SpecLeaveRace == Init /\ [][NextLeaveRace]_vars

\* ----------------------------------------------------------- SpecRestored
\* A process that starts with the room id r1 possibly persisted by an
\* earlier process. The user logs in, sends, logs out, and the page is
\* reloaded; another member posts in r1. No room is ever joined.
NextRestored ==
  \/ client = Null /\ CmdLogin
  \/ LoginResolved(TRUE, 4)
  \/ StartResolved(TRUE)
  \/ Logout
  \/ Constructor
  \/ CmdSend("chat")
  \/ SendAccepted
  \/ SendResolved("ok")
  \/ OtherPost("r1", [tag |-> "none", rpg |-> FALSE])
  \/ \E id \in 1..MaxEvents : LiveMessage(id, FALSE, "ok")

SpecRestored == InitToken /\ [][NextRestored]_vars

\* ---------------------------------------------------------- SpecRoomStore
\* The operations that assign the current room or its persisted copy, in
\* any order, succeeding or failing, with the write of the room id to the
\* persistent store able to fail.
NextRoomStore ==
  \/ client # "started" /\ CmdLogin
  \/ \E ok \in BOOLEAN : LoginResolved(ok, 4)
  \/ \E ok \in BOOLEAN : StartResolved(ok)
  \/ CmdLoginWithToken
  \/ \E ok \in BOOLEAN : TokenStartResolved(ok)
  \/ Logout
  \/ Reset(TRUE)
  \/ Constructor
  \/ \E r \in Rooms : CmdJoin(r)
  \/ \E ok \in BOOLEAN : JoinRoomResolved(ok)
  \/ JoinRoomStoreFailed
  \/ CmdLeave
  \/ \E ok \in BOOLEAN : LeaveResolved(ok)

SpecRoomStore == InitToken /\ [][NextRoomStore]_vars

\* ----------------------------------------------------------------- claims
BusIdx == 1..Len(bus)
IsRecordPub(i) == bus[i].msg # <<>>
PubId(i) == bus[i].msg[1].id
LoadInProgress == join.pc \in {"page", "delay", "backoff"}

\* C2 (as claimed): among the publications since the join request, no
\* replayed or history-page record of the joined room is published after a
\* live one, and no replayed record after a history-page one.
C2_ReplayThenHistoryThenLive ==
  \A i \in BusIdx : \A k \in BusIdx :
    (i < k /\ IsRecordPub(i) /\ IsRecordPub(k)) =>
      /\ ~(bus[i].via = "live" /\ bus[k].via \in {"replay", "page"})
      /\ ~(bus[i].via = "page" /\ bus[k].via = "replay")

\* C3 (as claimed): every event the running history load has processed has
\* been published from the history path.
C3_HistoryEventsPublished ==
  LoadInProgress =>
    \A id \in join.processed :
      \E i \in BusIdx : IsRecordPub(i) /\ bus[i].via = "page" /\ PubId(i) = id

\* the record of publication i was in the cache when the join was requested:
\* bus holds every publication since that request, and only the live
\* listener caches records of other members while a join is running
InCacheAtJoinStart(i) ==
  ~\E k \in 1..(i - 1) :
     IsRecordPub(k) /\ bus[k].via = "live" /\ PubId(k) = PubId(i)

\* C4 (as claimed): each record that was in the room's cache when the join
\* was requested is replayed at most once and carries historical = true.
C4_ReplayOnceAndHistorical ==
  \A i \in BusIdx :
    (IsRecordPub(i) /\ bus[i].via = "replay" /\ InCacheAtJoinStart(i)) =>
      /\ bus[i].msg[1].historical
      /\ \A k \in BusIdx :
           (k # i /\ IsRecordPub(k) /\ bus[k].via = "replay")
             => PubId(k) # PubId(i)

\* C5 (as claimed): the live listener publishes an event id at most once.
C5_LivePublishedAtMostOnce ==
  \A i \in BusIdx : \A k \in BusIdx :
    (i < k /\ IsRecordPub(i) /\ IsRecordPub(k)
       /\ bus[i].via = "live" /\ bus[k].via = "live") => PubId(i) # PubId(k)

\* the last n records of msgs
LastN(msgs, n) ==
  IF Len(msgs) <= n THEN msgs ELSE SubSeq(msgs, Len(msgs) - n + 1, Len(msgs))

\* C6 (as claimed): every room's cache holds at most 1000 records.
C6_AtMostPruneLimit ==
  \A k \in CacheKeys : Len(messageCache[k]) <= PruneLimit

\* what pruning must make of a cache: every room cut to its last PruneLimit
PruneExpected(cache) == [k \in CacheKeys |-> LastN(cache[k], PruneLimit)]

\* the room's records with exactly the record of id x marked
MarkedExactly(msgs, x) ==
  [i \in 1..Len(msgs) |->
     [msgs[i] EXCEPT !.redacted = (msgs[i].id = x) \/ msgs[i].redacted]]

\* the cache after a marking of id x in room r that touches nothing else
MarkedCache(cache, r, x) == [cache EXCEPT ![r] = MarkedExactly(@, x)]

\* C8 (as claimed): a live redaction event and a confirmed deleteLastMessage
\* change the cache to the same cache with exactly the record of the redacted
\* id marked (no change when the room has no such record); every other
\* record, the order and every other room stay as they were.
C8_MarkRedactedFrame ==
  [][/\ \A id \in PruneIds, o \in PruneOutcomes :
          (LiveRedaction(id, FALSE, o) /\ room # Null /\ srv[id].room = room)
             => messageCache' = MarkedCache(messageCache, room, id)
     /\ \A o \in PruneOutcomes :
          (RedactResolved(TRUE, o) /\ room # Null)
             => messageCache' = MarkedCache(messageCache, room, op.id)]_vars

\* C9: when a save fails on quota, _pruneMessageCache leaves every room of
\* at most 1000 records as it is and cuts every longer room to its last 1000
\* records, in their order.
C9_PruneKeepsNewest ==
  [][\A id \in PruneIds :
       (/\ LiveMessage(id, FALSE, "quota")
        /\ messageCache' # messageCache)
          => messageCache' =
               PruneExpected([messageCache EXCEPT
                  ![room] = Append(@, LiveMessageObj(id, roomState, userId))])]_vars

\* room r1 was cut to 1000 records and lost its oldest, room r2 was kept
C9_Witness ==
  /\ Len(messageCache["r1"]) = PruneLimit
  /\ messageCache["r1"][1].id = 5
  /\ messageCache["r1"][PruneLimit].id = PruneLimit + 4
  /\ Len(messageCache["r2"]) = 2

\* C10: '/join R' while the protocol client is null publishes exactly one
\* error event 'Not logged in', returns false, starts no join request and
\* leaves the room id, the cache and the room state as they were.
C10_JoinNotLoggedIn ==
  [][\A r \in Rooms :
       (CmdJoin(r) /\ client = Null)
          => /\ bus' = Append(bus, [ch |-> "error", via |-> "cmd",
                                    ctx |-> "joinRoom",
                                    note |-> "Not logged in", msg |-> <<>>])
             /\ result' = "false"
             /\ UNCHANGED <<join, room, lsRoom, messageCache, lsCache,
                            roomState, client>>]_vars

\* the error was published while logged out, in a process that has a room
\* and a non-empty cache
C10_Witness ==
  /\ client = Null /\ result = "false"
  /\ room # Null /\ messageCache[room] # <<>>
  /\ join.pc = "idle"
  /\ bus # <<>> /\ bus[Len(bus)].note = "Not logged in"

\* C1: no room's cache holds two records with the same event id.
C1_NoDuplicateIds ==
  \A k \in CacheKeys :
    \A i \in 1..Len(messageCache[k]) : \A j \in 1..Len(messageCache[k]) :
      i # j => messageCache[k][i].id # messageCache[k][j].id

\* the record cached by a send and the echo of the same event delivered
C1_Witness ==
  \E k \in CacheKeys : \E i \in 1..Len(messageCache[k]) :
    /\ messageCache[k][i].timestamp = ClientNow(messageCache[k][i].id)
    /\ messageCache[k][i].id \in timeline
    /\ Len(messageCache[k]) = MaxEvents

\* C7: the _addMessageToCache call made when a send resolves appends the
\* record as the last of the room iff the room has no record of that id; if
\* it has one, every room keeps its records, their order and their fields.
C7_AddIdempotent ==
  [][\A o \in {"ok", "other"} :
       SendResolved(o) =>
         IF \E i \in 1..Len(messageCache[room]) :
              messageCache[room][i].id = op.id
         THEN messageCache' = messageCache
         ELSE /\ Len(messageCache'[room]) = Len(messageCache[room]) + 1
              /\ SubSeq(messageCache'[room], 1, Len(messageCache[room]))
                   = messageCache[room]
              /\ messageCache'[room][Len(messageCache'[room])]
                   = SentMessageObj(op.id, op.kind, roomState, room, userId)
              /\ \A k \in CacheKeys \ {room} :
                   messageCache'[k] = messageCache[k]]_vars

\* a send has resolved after its echo was cached: the echo's record (built
\* by the live listener, with the server's timestamp) is still the stored one
C7_Witness ==
  /\ result = "true" /\ op.pc = "idle" /\ room # Null
  /\ \E i \in 1..Len(messageCache[room]) :
       /\ messageCache[room][i].sender = Me
       /\ messageCache[room][i].timestamp = ServerTs(messageCache[room][i].id)
       /\ ~messageCache[room][i].historical

\* C11 (as claimed): while no login has succeeded since the start or the
\* last logout or reset (userId is null), '/join' starts no join request
\* and returns false.
C11_JoinOnlyWhenAuthenticated ==
  [][\A r \in Rooms :
       (CmdJoin(r) /\ userId = Null)
          => (join' = join /\ result' = "false")]_vars

\* a written notation whose count or sides is outside 1..100 / 1..1000
OutOfRange(n) ==
  n.count < 1 \/ n.count > MaxCount \/ n.sides < 1 \/ n.sides > MaxSides

RollSendsNothing ==
  op' = op /\ srv' = srv /\ messageCache' = messageCache /\ result' = "false"

\* C13 (as claimed): rollDice returns null for every malformed notation and
\* for every notation with count or sides out of range, and '/roll' (or
\* sendRoll) with such a notation sends nothing and caches nothing; stated
\* for a client that is logged in and in a room.
C13_InvalidNotationRejected ==
  [][\A pt \in Patterns :
       (client # Null /\ room # Null /\ userId # Null) =>
       /\ \A n \in WellFormed :
            (OutOfRange(n) /\ ProcessCommand(KwRoll \o n.text, "chat", pt))
              => (~RollDice(n.text, pt).ok /\ RollSendsNothing)
       /\ \A m \in Malformed :
            (SendRoll(m, pt) \/ ProcessCommand(KwRoll \o m, "chat", pt))
              => (~RollDice(m, pt).ok /\ RollSendsNothing)]_vars

\* C14: for a notation written from a count in 1..100 and sides in 1..1000,
\* the roll succeeds and its request carries exactly count rolls, each in
\* 1..sides.
C14_ValidRoll ==
  [][\A n \in WellFormed, pt \in Patterns :
       (/\ ~OutOfRange(n)
        /\ client # Null /\ room # Null /\ userId # Null
        /\ ProcessCommand(KwRoll \o n.text, "chat", pt))
          => /\ RollDice(n.text, pt).ok
             /\ op'.pc = "sent"
             /\ Len(op'.payload.rolls) = n.count
             /\ \A i \in 1..n.count : op'.payload.rolls[i] \in 1..n.sides]_vars

\* a request of 100 rolls of a 1000-sided die, the first one a 1000
C14_Witness ==
  /\ op.pc = "sent" /\ op.kind = "roll"
  /\ Len(op.payload.rolls) = MaxCount
  /\ op.payload.rolls[1] = MaxSides

RECURSIVE NumEven(_)
NumEven(q) ==
  IF q = <<>> THEN 0
  ELSE (IF Head(q) % 2 = 0 THEN 1 ELSE 0) + NumEven(Tail(q))

\* p is the parity of a largest (dir = 1) or smallest (dir = -1) element
IsParityOfExtreme(q, p, dir) ==
  \E i \in 1..Len(q) :
    /\ \A j \in 1..Len(q) : dir * q[j] <= dir * q[i]
    /\ p = (IF q[i] % 2 = 0 THEN "even" ELSE "odd")

\* C15: every cached roll record has hits = the number of even rolls and,
\* when there are rolls, the parities of the largest and the smallest roll;
\* the payload the server received for the event carries the same values.
C15_RollStats ==
  \A k \in CacheKeys : \A i \in 1..Len(messageCache[k]) :
    LET rec == messageCache[k][i] IN
    (rec.type = "roll" /\ "rolls" \in DOMAIN rec) =>
      /\ rec.hits = NumEven(rec.rolls)
      /\ rec.rolls # <<>> =>
           /\ IsParityOfExtreme(rec.rolls, rec.highEvenOdd, 1)
           /\ IsParityOfExtreme(rec.rolls, rec.lowEvenOdd, -1)
      /\ srv[rec.id].payload.rolls = rec.rolls
      /\ srv[rec.id].payload.hits = rec.hits
      /\ srv[rec.id].payload.highEvenOdd = rec.highEvenOdd
      /\ srv[rec.id].payload.lowEvenOdd = rec.lowEvenOdd

\* the record of a sent '/roll 2d6' with rolls 4 and 1 is cached
C15_Witness ==
  \E i \in 1..Len(messageCache["r1"]) :
    LET rec == messageCache["r1"][i] IN
    /\ rec.type = "roll" /\ rec.timestamp = ClientNow(rec.id)
    /\ "rolls" \in DOMAIN rec
    /\ rec.rolls = <<4, 1>> /\ rec.hits = 1
    /\ rec.highEvenOdd = "even" /\ rec.lowEvenOdd = "odd"

\* the command names of the documented grammar
DocumentedCommands ==
  {Trim(KwLogin), Trim(KwJoin), KwLeave, Trim(KwRoll), Trim(KwScene),
   Trim(KwNarrate), KwDelete, KwLogout, KwReset}

\* C12 (as claimed): a line that begins with '/' and whose first word is none
\* of the documented command names publishes exactly one error 'Unknown
\* command', returns false, starts no request and changes no state.
C12_UnknownCommand ==
  [][\A input \in Inputs :
       (/\ StartsWith(input, <<"/">>)
        /\ Part(input, 0) \notin DocumentedCommands
        /\ ProcessCommand(input, "chat", <<500, 0>>))
          => /\ bus' = Append(bus, ErrorEvent("command", "Unknown command"))
             /\ result' = "false"
             /\ UNCHANGED <<client, userId, room, roomState, messageCache,
                            lsRoom, lsCache, lsCreds, srv, join, op,
                            loginCall, leaveCall>>]_vars

\* C16: a '/logout' or '/reset' line leaves the in-memory cache and the
\* persisted cache exactly as they were and clears the stored credentials
\* and the stored room id, also when the reset throws on its
\* sessionStorage write; a command that returns has cleared the current
\* room id too.
C16_LogoutResetKeepCache ==
  [][\A input \in {InLogout, InReset} :
       ProcessCommand(input, "chat", <<500, 0>>)
         => /\ messageCache' = messageCache
            /\ lsCache' = lsCache
            /\ lsCreds' = {}
            /\ lsRoom' = Null
            /\ result' # "throws" => room' = Null]_vars

\* logged out, with a record still cached in memory and on disk
C16_Witness ==
  /\ result = "logout"
  /\ client = Null /\ userId = Null /\ room = Null
  /\ lsRoom = Null /\ lsCreds = {}
  /\ messageCache["r1"] # <<>>
  /\ lsCache["r1"] # <<>>

\* C17 (as claimed): while no user is logged in or no room id is set, a
\* plain line, /roll, /scene, /narrate, /delete and /leave each start no
\* request, publish exactly one error event, return false and leave the
\* cache and the room id unchanged.
C17_NotLoggedInOrNoRoom ==
  [][\A input \in {InHi, InRoll2d6, InSceneS, InNarrateN, InDelete, InLeave} :
       (/\ userId = Null \/ room = Null
        /\ ProcessCommand(input, "chat", <<500, 0>>))
          => /\ op' = op
             /\ leaveCall' = leaveCall
             /\ Len(bus') = Len(bus) + 1
             /\ bus'[Len(bus')].ch = "error"
             /\ result' = "false"
             /\ messageCache' = messageCache
             /\ lsCache' = lsCache
             /\ room' = room]_vars

\* the values processCommand resolves to
ResultValues == {"true", "false", "loginOk", "loginFail", "logout"}

\* C18 (as claimed): in every state the last command has returned one of the
\* result values (none before the first command), never a thrown exception,
\* whatever the line, the state and the way its request settled; and a
\* request that is pending can always settle by a rejection that is caught.
C18_AlwaysAResult ==
  /\ result \in ResultValues \cup {"none"}
  /\ op.pc = "sent" => ENABLED SendRejected
  /\ op.pc = "accepted" => ENABLED SendResolved("ok")
  /\ op.pc = "redacting" => ENABLED RedactResolved(FALSE, "ok")
  /\ join.pc = "joining" => ENABLED JoinRoomResolved(FALSE)
  /\ loginCall.pc = "password" => ENABLED LoginResolved(FALSE, 4)
  /\ loginCall.pc = "start" => ENABLED StartResolved(FALSE)
  /\ leaveCall.pc = "leaving" => ENABLED LeaveResolved(FALSE)

\* number of records of msgs with the given id
CountId(msgs, id) == Cardinality({i \in 1..Len(msgs) : msgs[i].id = id})

\* C19: a rate-limited page request changes nothing but arms a timer of the
\* server's retry_after_ms (5000 ms without one); when it fires the same
\* request is issued for the same room with the same set of processed ids;
\* the page that then arrives leaves exactly one record of each of its
\* unredacted events in the cache and the earlier records as they were;
\* a failure of any other kind ends the load.
C19_RateLimitRetry ==
  /\ [][\A ra \in RetryAfters :
          PageResolved("ratelimit", FALSE, "ok", ra)
            => /\ join'.pc = "backoff"
               /\ join'.wait = (IF ra = 0 THEN DefaultBackoff ELSE ra)
               /\ join'.rid = join.rid
               /\ join'.processed = join.processed
               /\ UNCHANGED <<messageCache, lsCache, bus, srv, result,
                              isLoadingHistory>>]_vars
  /\ [][(TimerFired /\ join.pc = "backoff" /\ client # Null)
            => /\ join'.pc = "page"
               /\ join'.rid = join.rid
               /\ join'.processed = join.processed
               /\ UNCHANGED <<messageCache, lsCache, bus, srv, result,
                              isLoadingHistory>>]_vars
  /\ [][\A end \in BOOLEAN :
          PageResolved("chunk", end, "ok", 0)
            => LET old == messageCache[join.rid]
                   new == messageCache'[join.rid]
                   chunk == PageChunk(join.rid)
               IN /\ Len(new) >= Len(old)
                  /\ SubSeq(new, 1, Len(old)) = old
                  /\ \A i \in 1..Len(chunk) :
                       ~srv[chunk[i]].redacted => CountId(new, chunk[i]) = 1]_vars
  /\ [][PageResolved("error", FALSE, "ok", 0) => join'.pc = "idle"]_vars

\* the load waits 5000 ms on a rate limit, with events already processed
C19_Witness ==
  /\ join.pc = "backoff"
  /\ join.wait = DefaultBackoff
  /\ join.processed # {}
  /\ messageCache["r1"] # <<>>

\* C20: a page request that fails for another reason than a rate limit
\* publishes exactly one system message on the message channel, followed by
\* roomJoin; the load is over and joinRoom returns true.
C20_PageErrorEndsLoad ==
  [][PageResolved("error", FALSE, "ok", 0)
       => /\ bus' = bus \o <<SystemMessage("Couldn't load more history"),
                            Pub("roomJoin", "join", join.rid, "", <<>>)>>
          /\ result' = "true"
          /\ join' = IdleJoin
          /\ ~isLoadingHistory'
          /\ UNCHANGED <<room, messageCache, lsCache>>]_vars

\* the join of r1 has returned true after a failed page request
C20_Witness ==
  /\ Len(bus) >= 2
  /\ bus[Len(bus) - 1] = SystemMessage("Couldn't load more history")
  /\ bus[Len(bus)] = Pub("roomJoin", "join", "r1", "", <<>>)
  /\ join = IdleJoin
  /\ result = "true"
  /\ room = "r1"

\* the number of new events the page now requested would yield
PageYield ==
  ProcessEvents([st |-> Store, processed |-> join.processed,
                 newEvents |-> 0, pubs |-> <<>>],
                join.rid, PageChunk(join.rid), roomState, isLoadingHistory,
                "ok", 1).newEvents

\* C21: a history load that is paging ends; another page is requested only
\* after a page that came with an end token and yielded a new event, and a
\* page that yields no new event ends the load.
C21_LoadTerminates ==
  /\ (join.pc \in {"page", "delay", "backoff"}) ~> (join.pc = "idle")
  /\ [][\A end \in BOOLEAN :
          PageResolved("chunk", end, "ok", 0)
            => /\ join'.pc = "delay" => (end /\ PageYield > 0)
               /\ PageYield = 0 => join'.pc = "idle"]_vars

\* a page with an end token yielded a new event: the next page is awaited
C21_Witness ==
  /\ join.pc = "delay"
  /\ join.wait = PageDelay
  /\ join.processed # {}

\* the step ends a room-state refresh with the error event of its catch
RefreshFails ==
  /\ join.pc \in {"state1", "state2"}
  /\ join'.pc \notin {"state1", "state2"}
  /\ Len(bus') > Len(bus)
  /\ bus'[Len(bus) + 1] = ErrorEvent("roomState", "Failed to update room state")

\* C22 (as claimed): a room-state refresh that fails at any step emits an
\* error event, publishes no roomState event and leaves the room state map
\* exactly as it was.
C22_FailedRefreshKeepsState ==
  [][RefreshFails
       => /\ roomState' = roomState
          /\ \A i \in (Len(bus) + 1)..Len(bus') : bus'[i].ch # "roomState"]_vars

\* C23: a live event (message, redaction, membership or power-level
\* change) of a room other than the current one changes neither the cache,
\* in memory or persisted, nor the bus, nor the room state.
C23_OtherRoomIgnored ==
  [][/\ \A id \in 1..MaxEvents :
          (/\ id <= Len(srv)
           /\ srv[id].room # room
           /\ LiveMessage(id, FALSE, "ok") \/ LiveRedaction(id, FALSE, "ok"))
            => UNCHANGED <<messageCache, lsCache, bus, roomState>>
     /\ \A r \in Rooms :
          (r # room /\ LiveStateEvent(r, FALSE))
            => UNCHANGED <<messageCache, lsCache, bus, roomState, refresh>>]_vars

\* with r1 the current room, a message event of r2 has been delivered
C23_Witness ==
  /\ client = "started" /\ room = "r1"
  /\ \E id \in timeline : srv[id].room = "r2" /\ ~srv[id].redacted
  /\ messageCache["r2"] = <<>>

\* the channel that matches a semantic type
ChannelOfType(type) ==
  IF type = "roll" THEN "roll" ELSE IF type = "scene" THEN "scene"
  ELSE "message"

\* C24 (as claimed): every record the live listener publishes is on the
\* channel that matches the type of the record.
C24_LiveChannelMatchesType ==
  \A i \in BusIdx :
    (bus[i].via = "live" /\ bus[i].msg # <<>>)
      => bus[i].ch = ChannelOfType(bus[i].msg[1].type)

\* the semantic types of the data model
SemanticTypes == {"chat", "game", "narrate", "scene", "roll", "system"}

\* C26 (as claimed): every record in the cache or published on the bus has
\* one of the six semantic types.
C26_TypeIsSemantic ==
  /\ \A k \in CacheKeys : \A i \in 1..Len(messageCache[k]) :
       messageCache[k][i].type \in SemanticTypes
  /\ \A i \in BusIdx :
       bus[i].msg # <<>> => bus[i].msg[1].type \in SemanticTypes

\* the record x of msgs is still in msgs2, marked redacted
StaysMarked(x, msgs2) ==
  \E j \in 1..Len(msgs2) : msgs2[j].id = x.id /\ msgs2[j].redacted

\* C25 (as claimed): a live redaction publishes nothing, and the record it
\* marks, like every record already marked, is in the cache afterwards.
C25_RedactionKeepsRecord ==
  [][\A id \in PruneIds, viaOrphan \in BOOLEAN, o \in PruneOutcomes :
       (LiveRedaction(id, viaOrphan, o) /\ room # Null /\ srv[id].room = room)
         => /\ bus' = bus
            /\ \A i \in 1..Len(messageCache[room]) :
                 LET x == messageCache[room][i] IN
                 (x.id = id \/ x.redacted) => StaysMarked(x, messageCache'[room])]_vars

\* y is the record x, unchanged but for a mark set
SameButRedacted(x, y) == y = x \/ y = [x EXCEPT !.redacted = TRUE]

\* new holds the records of old in their order, each unchanged but for a
\* mark set, after a cut of the d oldest that left PruneLimit records
KeptOrPruned(old, new) ==
  \E d \in 0..Len(old) :
    /\ d > 0 => (Len(new) = PruneLimit /\ Len(old) - d >= PruneLimit - 1)
    /\ Len(new) >= Len(old) - d
    /\ \A i \in (d + 1)..Len(old) : SameButRedacted(old[i], new[i - d])

\* C27 (as claimed): a record, once in a room's cache, is never removed
\* except by pruning; no field of it other than redacted ever changes, and
\* redacted only goes from unset to true.
C27_RecordsStay ==
  [][\A r \in CacheKeys : KeptOrPruned(messageCache[r], messageCache'[r])]_vars

\* C28: absent storage failure, every completed operation that changes the
\* in-memory cache (adding a record, marking by a live redaction,
\* deleteLastMessage, clearAllMessages, also when one of its redactions
\* fails) leaves the persisted cache equal to the in-memory cache.
C28_MutationPersisted ==
  [][messageCache' # messageCache => lsCache' = messageCache']_vars

\* new is old with one record of the given id appended
Appended(old, new, id) ==
  /\ Len(new) = Len(old) + 1
  /\ new[Len(new)].id = id
  /\ \A i \in 1..Len(old) : new[i] = old[i]

Smaller(a, b) == IF a < b THEN a ELSE b

\* new is the n newest records of old
Newest(old, new, n) ==
  /\ Len(new) = n
  /\ \A j \in 1..n : new[j] = old[Len(old) - n + j]

\* new is what the cut to PruneLimit leaves of old with a record of the
\* given id appended
AppendedAndPruned(old, new, id) ==
  LET n == Smaller(Len(old) + 1, PruneLimit)
  IN /\ Len(new) = n
     /\ new[n].id = id
     /\ \A j \in 1..(n - 1) : new[j] = old[Len(old) - (n - 1) + j]

\* the live message id is for the current room and not cached yet
AddsRecord(id) ==
  /\ room # Null /\ srv[id].room = room /\ ~srv[id].redacted
  /\ ~HasId(messageCache[room], id)

\* C29: when the save after a record is added fails on quota the cache is
\* pruned and saved again once; if that fails too nothing is thrown, the
\* operation completes (the live message is published, /delete returns
\* true) and the in-memory cache still holds the record just added.  A
\* failure other than quota is not thrown either and leaves the in-memory
\* cache as the operation made it.
C29_SaveFailureContained ==
  [][/\ \A id \in (PruneLimit + 3)..(PruneLimit + 4), o \in StorageOutcomes :
          (AddsRecord(id) /\ LiveMessage(id, FALSE, o))
            => /\ Len(bus') = Len(bus) + 1
               /\ bus'[Len(bus')].ch = "message"
               /\ bus'[Len(bus')].msg[1].id = id
               /\ HasId(messageCache'[room], id)
               /\ o = "ok" =>
                    /\ Appended(messageCache[room], messageCache'[room], id)
                    /\ lsCache' = messageCache'
               /\ o = "other" =>
                    /\ Appended(messageCache[room], messageCache'[room], id)
                    /\ \A k \in CacheKeys \ {room} :
                         messageCache'[k] = messageCache[k]
                    /\ lsCache' = lsCache
               /\ o \in {"quota", "quotaTwice"} =>
                    /\ AppendedAndPruned(messageCache[room],
                                         messageCache'[room], id)
                    /\ \A k \in CacheKeys \ {room} :
                         Newest(messageCache[k], messageCache'[k],
                                Smaller(Len(messageCache[k]), PruneLimit))
               /\ o = "quota" => lsCache' = messageCache'
               /\ o = "quotaTwice" => lsCache' = lsCache
     /\ \A o \in StorageOutcomes :
          (op.pc = "redacting" /\ messageCache[room] # <<>>
             /\ RedactResolved(TRUE, o))
            => /\ result' = "true"
               /\ \A i \in 1..Len(messageCache'[room]) :
                    messageCache'[room][i].id = op.id
                      => messageCache'[room][i].redacted
               /\ o \in {"ok", "other"} =>
                    /\ Len(messageCache'[room]) = Len(messageCache[room])
                    /\ HasId(messageCache'[room], op.id)
               /\ o \in {"other", "quotaTwice"} => lsCache' = lsCache
               /\ o \in {"ok", "quota"} => lsCache' = messageCache']_vars

\* r1 was full; the save after live message PruneLimit + 3 failed on quota
\* twice: the record is published and last in the pruned in-memory cache,
\* the persisted cache is the one the process started with
C29_Witness ==
  /\ lsCache = StoredCache(PruneLimit)
  /\ Len(messageCache["r1"]) = PruneLimit
  /\ messageCache["r1"][1].id = 4
  /\ messageCache["r1"][PruneLimit].id = PruneLimit + 3
  /\ bus # <<>>
  /\ bus[Len(bus)].msg # <<>>
  /\ bus[Len(bus)].msg[1].id = PruneLimit + 3

\* C30: loginWithToken falls back to the password login when the stored
\* token or user id is missing or startClient with the token fails, provided
\* a username and a password are stored, and returns that login's outcome;
\* with none stored it returns false, and emits the error event of context
\* tokenLogin only when the start failed.
C30_TokenLoginFallback ==
  [][LET missing == "token" \notin lsCreds \/ "userId" \notin lsCreds
         stored == "username" \in lsCreds /\ "password" \in lsCreds
     IN
        /\ CmdLoginWithToken =>
             /\ (missing /\ stored) =>
                  /\ loginCall'.pc = "password"
                  /\ bus' = bus
             /\ (missing /\ ~stored) =>
                  /\ result' = "false"
                  /\ loginCall' = IdleLogin
                  /\ UNCHANGED <<bus, client, lsCreds>>
             /\ ~missing => loginCall'.pc = "tokenStart"
        /\ TokenStartResolved(FALSE) =>
             /\ stored =>
                  /\ loginCall'.pc = "password"
                  /\ bus' = bus
             /\ ~stored =>
                  /\ result' = "false"
                  /\ loginCall' = IdleLogin
                  /\ lsCreds' = lsCreds
                  /\ bus' = Append(bus, ErrorEvent("tokenLogin",
                                                   "Token login failed"))
        /\ TokenStartResolved(TRUE) =>
             /\ result' = "true"
             /\ loginCall' = IdleLogin
             /\ bus' = bus
        /\ \A ok \in BOOLEAN :
             (LoginResolved(ok, 4) /\ loginCall'.pc = "idle") =>
               /\ result' = "loginFail"
               /\ bus' = Append(bus, ErrorEvent("login", "Login failed"))
        /\ \A ok \in BOOLEAN :
             StartResolved(ok) =>
               /\ result' = IF ok THEN "loginOk" ELSE "loginFail"
               /\ ok => bus' = bus
               /\ ~ok =>
                    bus' = Append(bus, ErrorEvent("login", "Login failed"))]_vars

\* the token was stored without a username and password and the start with
\* it failed: false with the tokenLogin error
C30_Witness ==
  /\ lsCreds = {"token", "userId"}
  /\ result = "false"
  /\ client = "created"
  /\ bus # <<>>
  /\ bus[Len(bus)] = ErrorEvent("tokenLogin", "Token login failed")

\* the protocol clients that were started and not stopped
StartedClients == orphans + (IF client = "started" THEN 1 ELSE 0)

\* C31: at most one protocol client is started and not stopped at any time,
\* over any sequence of /login, token login, /logout and /reset: a started
\* client is stopped before a new one replaces it.
C31_SingleStartedClient == StartedClients <= 1

\* C32: when the server holds more than one page of history for a room and
\* no request fails, a completed join has every non-redacted message event
\* of the room in the room's cache.
C32_JoinLoadsAllHistory ==
  (join.pc = "idle" /\ result = "true" /\ room # Null /\ ServerEnd(room))
    => \A i \in 1..Len(srv) :
         (srv[i].room = room /\ ~srv[i].redacted)
           => HasId(messageCache[room], i)

\* the publications on the bus that carry the record of the given id
PublicationsOf(id) ==
  {i \in 1..Len(bus) : bus[i].msg # <<>> /\ bus[i].msg[1].id = id}

\* C33: every message the user sent successfully is published exactly once,
\* whether its live echo is delivered before or after the send request
\* resolves: once the request has resolved and the echo was delivered there
\* is one publication of it.
C33_SentPublishedOnce ==
  \A id \in 1..Len(srv) :
    (srv[id].sender = Me /\ id \in timeline /\ op.id # id /\ room = srv[id].room)
      => Cardinality(PublicationsOf(id)) = 1

\* C34: whatever the type tag and format marker of a message event, the
\* channel and the record's type are the same whether the event is processed
\* live, from a history page or replayed from the cache: every publication
\* of a record is on the channel the live listener uses for its event, with
\* the type the live listener gives it.
C34_SameChannelEveryPath ==
  \A i \in BusIdx :
    bus[i].msg # <<>>
      => /\ bus[i].ch = LiveChannel(bus[i].msg[1].id)
         /\ bus[i].msg[1].type = MessageType(srv[bus[i].msg[1].id].tag)

\* the joinRoom call j is inside _loadRoomHistory
LoadingHistory(j) == j.pc \in {"page", "delay", "backoff"}

\* C35: at most one history page request is outstanding for a room at any
\* time, and the history-loading flag is true exactly while a history load
\* is in progress, also when a second /join is issued while the first
\* join's history load is suspended.
C35_OneLoadAtATime ==
  /\ ~(join.pc = "page" /\ join2.pc = "page" /\ join.rid = join2.rid)
  /\ isLoadingHistory <=> (LoadingHistory(join) \/ LoadingHistory(join2))

\* C36: a successful /delete redacts a message the current user sent in the
\* current room that is not redacted yet, the most recent such message, so
\* that two successful /delete in a row redact two different messages.
C36_DeleteTargetsLatest ==
  [][(op.pc = "redacting" /\ RedactResolved(TRUE, "ok"))
       => /\ srv[op.id].sender = userId
          /\ srv[op.id].room = room
          /\ ~srv[op.id].redacted
          /\ \A j \in 1..Len(srv) :
               (srv[j].sender = userId /\ srv[j].room = room
                  /\ ~srv[j].redacted /\ j \in timeline)
                 => j <= op.id]_vars

\* C37: for every room the records of the cache are in non-decreasing
\* timestamp order, after any sequence of live events, sends and history
\* loads.
C37_CacheInTimeOrder ==
  \A k \in CacheKeys : \A i, j \in 1..Len(messageCache[k]) :
    i < j => messageCache[k][i].timestamp <= messageCache[k][j].timestamp

\* C38: whenever a roomJoin event for room R is emitted the current room is
\* R and the client is logged in, also when /leave, /logout or /reset was
\* processed while the join was suspended.
C38_RoomJoinMatchesState ==
  [][(join.pc # "idle" /\ bus' # bus /\ bus' # <<>>
        /\ bus'[Len(bus')].ch = "roomJoin")
       => /\ room' = bus'[Len(bus')].ctx
          /\ client' # Null]_vars

\* C39: a message is sent to the protocol layer, and a live event is cached
\* or published, only for a room joined through joinRoom in the current
\* process. Where no room is joined and r1 is only restored from persistent
\* storage at construction or at login, no send request is made for r1, no
\* record of r1 is cached and no message of r1 is published.
C39_NoActivityWithoutJoin ==
  /\ op.pc # "idle" => op.rid # "r1"
  /\ messageCache["r1"] = <<>>
  /\ \A i \in 1..Len(bus) : bus[i].msg # <<>> => bus[i].msg[1].roomId # "r1"

\* C40: after every completed operation (construction, login, token login,
\* join, leave, logout, reset, in any order, succeeding or failing) the
\* in-memory current room id equals the persisted last-joined room id.
C40_RoomMatchesStorage ==
  (join.pc = "idle" /\ join2.pc = "idle") => room = lsRoom
====
